---- MODULE Spec2Model ----
(***************************************************************************)
(* Model of the MON linter (src/src/linter) and formatter                 *)
(* (src/src/formatter).  A document is the value tree the parser hands to *)
(* Linter.lint, AnalysisService.analyze_document and Formatter.format.    *)
(***************************************************************************)
EXTENDS Integers, Sequences, FiniteSets, TLC

\* ------------------------------------------------------------------------
\* Bounds of the model
\* ------------------------------------------------------------------------
\* members + array items below the root object, structure documents
MaxNodes == 4
\* members + array items below the root object, anchor documents
MaxAnchorNodes == 3
\* calls of the same operation on one document
MaxRuns == 2
\* nodes of a document given to the formatter
MaxFormatNodes == 3
\* nodes of a document whose source text carries comments or is cut short
MaxSourceNodes == 2
\* files of one lint batch
MaxFiles == 3
\* add calls on one LintResult
MaxDiagnostics == 2
\* calls on one SymbolTable
MaxCalls == 3
\* characters of a text whose byte offsets are converted
MaxChars == 3
\* nodes of a document that draws diagnostics of every category
MaxOrderNodes == 3
\* nodes of a document whose keys mix naming styles
MaxNamingNodes == 3
\* nodes of a document formatted under every trailing-comma policy
MaxCommaNodes == 2
\* members of an object handed to sort_members
MaxMembers == 3
\* nodes of a document formatted with sort_keys set
MaxSortedNodes == 2
\* lines handed to calculate_comment_alignment
MaxLines == 2
\* the longest content and the greatest column handed to align_comment_at
MaxContentLen == 5
MaxColumn == 8
\* characters of a source line searched for a comment
MaxLineChars == 6
\* import statements of one file
MaxImports == 2

Keys == {"a", "b"}
Names == {"a", "b"}
TypeNames == {"T"}
\* Option<String>::None of MonValue.anchor
NoAnchor == "-"

\* ------------------------------------------------------------------------
\* The value tree (mon_core::ast as the linter and formatter match on it)
\* ------------------------------------------------------------------------
NullV(anchor) == [kind |-> "Null", anchor |-> anchor]
AliasV(name) == [kind |-> "Alias", anchor |-> NoAnchor, name |-> name]
ArraySpreadV(name) == [kind |-> "ArraySpread", anchor |-> NoAnchor, name |-> name]
NumberV(anchor, n) == [kind |-> "Number", anchor |-> anchor, n |-> n]
ArrayV(anchor, items) == [kind |-> "Array", anchor |-> anchor, items |-> items]
ObjectV(anchor, members) == [kind |-> "Object", anchor |-> anchor, members |-> members]
Pair(key, value) == [mk |-> "Pair", key |-> key, value |-> value]
Spread(name) == [mk |-> "Spread", name |-> name]
\* a TypeDefinition member: an enum with one variant
TypeDefinition(name) ==
    [mk |-> "TypeDefinition", name |-> name, def_type |-> "Enum", variants |-> <<"V">>]

IsPair(m) == m.mk = "Pair"

\* ------------------------------------------------------------------------
\* Helpers on sequences and sets
\* ------------------------------------------------------------------------
RECURSIVE ConcatAll(_)
ConcatAll(ss) == IF ss = <<>> THEN <<>> ELSE Head(ss) \o ConcatAll(Tail(ss))

RECURSIVE UnionAll(_)
UnionAll(ss) == IF ss = <<>> THEN {} ELSE Head(ss) \cup UnionAll(Tail(ss))

RECURSIVE SumAll(_)
SumAll(ns) == IF ns = <<>> THEN 0 ELSE Head(ns) + SumAll(Tail(ns))

MaxOf(S) == CHOOSE x \in S : \A y \in S : y <= x

Range(s) == {s[i] : i \in DOMAIN s}

\* every ordering of a finite set: the iteration orders of a HashSet / HashMap
Orders(S) == {s \in [1..Cardinality(S) -> S] : Range(s) = S}

Count(s, P(_)) == Cardinality({i \in DOMAIN s : P(s[i])})

\* ------------------------------------------------------------------------
\* Documents the model draws its inputs from
\* ------------------------------------------------------------------------
\* "structure" documents: nesting, sizes, keys;  "anchors" documents:
\* anchors (in key position, &key: value), aliases and spreads;  "format"
\* documents: what the formatter renders, over one key;  "order" documents:
\* one key, anchors and references through a namespace;  "naming" documents:
\* keys with an underscore, an uppercase letter, both or neither.
KeysOf(fam) ==
    CASE fam \in {"format", "order"} -> {"a"}
      [] fam = "naming" -> {"a", "a_b", "aB", "A_b"}
      [] OTHER -> Keys

PairLeaves(fam, key) ==
    CASE fam = "structure" -> {NullV(NoAnchor)}
      [] fam = "anchors" -> {NullV(NoAnchor), NullV(key)} \cup {AliasV(n) : n \in Names}
      [] fam = "format" -> {NumberV(NoAnchor, 1), NumberV(key, 1)}
      [] fam = "order" -> {NullV(NoAnchor), NullV(key), AliasV("ns.a")}
      [] fam = "naming" -> {NullV(NoAnchor)}

ItemLeaves(fam) ==
    CASE fam = "structure" -> {NullV(NoAnchor)}
      [] fam = "anchors" -> {NullV(NoAnchor)} \cup {AliasV(n) : n \in Names}
                                             \cup {ArraySpreadV(n) : n \in Names}
      [] fam = "format" -> {NumberV(NoAnchor, 1)}
      [] fam = "order" -> {NullV(NoAnchor)}
      [] fam = "naming" -> {NullV(NoAnchor)}

PairAnchors(fam, key) ==
    IF fam \in {"structure", "naming"} THEN {NoAnchor} ELSE {NoAnchor, key}

SimpleMembers(fam) ==
    CASE fam = "anchors" -> {Spread(n) : n \in Names}
      [] fam = "order" -> {Spread("ns.a")}
      [] fam = "naming" -> {}
      [] OTHER -> {Spread("a")} \cup {TypeDefinition(t) : t \in TypeNames}

RECURSIVE MemberLists(_, _), ItemLists(_, _)
\* member sequences with exactly n members and items in total
MemberLists(fam, n) ==
    IF n = 0 THEN {<<>>}
    ELSE UNION {
        LET first ==
                (IF k = 1 THEN SimpleMembers(fam) ELSE {})
                \cup UNION {{Pair(key, v) : v \in
                                (IF k = 1 THEN PairLeaves(fam, key) ELSE {})}
                            : key \in KeysOf(fam)}
                \cup UNION {{Pair(key, ArrayV(anc, its)) :
                                anc \in PairAnchors(fam, key), its \in ItemLists(fam, k - 1)}
                            : key \in KeysOf(fam)}
                \cup UNION {{Pair(key, ObjectV(anc, ms)) :
                                anc \in PairAnchors(fam, key), ms \in MemberLists(fam, k - 1)}
                            : key \in KeysOf(fam)}
        IN  {<<m>> \o rest : m \in first, rest \in MemberLists(fam, n - k)}
        : k \in 1..n}

ItemLists(fam, n) ==
    IF n = 0 THEN {<<>>}
    ELSE UNION {
        LET first ==
                (IF k = 1 THEN ItemLeaves(fam) ELSE {})
                \cup {ArrayV(NoAnchor, its) : its \in ItemLists(fam, k - 1)}
                \cup {ObjectV(NoAnchor, ms) : ms \in MemberLists(fam, k - 1)}
        IN  {<<it>> \o rest : it \in first, rest \in ItemLists(fam, n - k)}
        : k \in 1..n}

\* MonDocument: imports and a root object
Documents(fam, n) ==
    {[imports |-> <<>>, root |-> ObjectV(NoAnchor, ms)] :
        ms \in UNION {MemberLists(fam, k) : k \in 0..n}}

\* ------------------------------------------------------------------------
\* Diagnostics (linter/diagnostic.rs, linter/mod.rs)
\* ------------------------------------------------------------------------
\* every code a Warning
SeverityAllWarning(code) == "Warning"

\* DiagnosticCode::severity
Severity(code) ==
    CASE code \in {"LINT2002", "LINT4002"} -> "Error"
      [] code \in {"LINT1001", "LINT1002", "LINT1003", "LINT2001", "LINT2003",
                   "LINT4001", "LINT4003"} -> "Warning"
      [] code \in {"LINT2004", "LINT3001", "LINT3002", "LINT3003"} -> "Info"

NoRange == <<"None">>

\* LintResult::add_diagnostic: the Diagnostic it pushes
AddDiagnostic(code, message) ==
    [code |-> code, severity |-> Severity(code), message |-> message,
     range |-> NoRange, tags |-> {}]

\* LintResult::add_diagnostic_with_range: the Diagnostic it pushes
AddDiagnosticWithRange(code, message, range, tags) ==
    [code |-> code, severity |-> Severity(code), message |-> message,
     range |-> range, tags |-> tags]

\* ------------------------------------------------------------------------
\* ComplexityAnalyzer (linter/complexity.rs)
\* ------------------------------------------------------------------------
RECURSIVE CalculateMaxDepth(_, _)
CalculateMaxDepth(value, current_depth) ==
    CASE value.kind = "Object" ->
            MaxOf({current_depth} \cup
                  {CalculateMaxDepth(value.members[i].value, current_depth + 1) :
                      i \in {j \in DOMAIN value.members : IsPair(value.members[j])}})
      [] value.kind = "Array" ->
            MaxOf({current_depth} \cup
                  {CalculateMaxDepth(value.items[i], current_depth + 1) :
                      i \in DOMAIN value.items})
      [] OTHER -> current_depth

\* mutant: TypeDefinition members are counted too
RegularMembersAll(members) == members

\* the members analyze_sizes counts: all but TypeDefinition
RegularMembers(members) == SelectSeq(members, LAMBDA m : m.mk # "TypeDefinition")

RECURSIVE AnalyzeSizes(_, _, _)
AnalyzeSizes(cfg, value, depth) ==
    CASE value.kind = "Object" ->
            (IF Len(RegularMembers(value.members)) > cfg.max_object_members
             THEN <<AddDiagnostic("LINT1002",
                        <<"Object members", depth, Len(RegularMembers(value.members)),
                          cfg.max_object_members>>)>>
             ELSE <<>>)
            \o ConcatAll([i \in DOMAIN value.members |->
                    IF IsPair(value.members[i])
                    THEN AnalyzeSizes(cfg, value.members[i].value, depth + 1)
                    ELSE <<>>])
      [] value.kind = "Array" ->
            (IF Len(value.items) > cfg.max_array_items
             THEN <<AddDiagnostic("LINT1003",
                        <<"Array items", depth, Len(value.items), cfg.max_array_items>>)>>
             ELSE <<>>)
            \o ConcatAll([i \in DOMAIN value.items |->
                    AnalyzeSizes(cfg, value.items[i], depth + 1)])
      [] OTHER -> <<>>

\* mutant: the two wordings are not exclusive
AnalyzeDepthNoElse(cfg, root) ==
    LET max_depth == CalculateMaxDepth(root, 0) IN
    (IF max_depth > cfg.max_nesting_depth + 2
     THEN <<AddDiagnostic("LINT1001",
                <<"exceeds limit by more than 2 levels", max_depth,
                  cfg.max_nesting_depth>>)>>
     ELSE <<>>)
    \o (IF max_depth > cfg.max_nesting_depth
        THEN <<AddDiagnostic("LINT1001",
                   <<"exceeds recommended limit", max_depth, cfg.max_nesting_depth>>)>>
        ELSE <<>>)

\* the nesting check of ComplexityAnalyzer::analyze
AnalyzeDepth(cfg, root) ==
    LET max_depth == CalculateMaxDepth(root, 0) IN
    IF max_depth > cfg.max_nesting_depth
    THEN IF max_depth > cfg.max_nesting_depth + 2
         THEN <<AddDiagnostic("LINT1001",
                    <<"exceeds limit by more than 2 levels", max_depth,
                      cfg.max_nesting_depth>>)>>
         ELSE <<AddDiagnostic("LINT1001",
                    <<"exceeds recommended limit", max_depth, cfg.max_nesting_depth>>)>>
    ELSE <<>>

\* ComplexityAnalyzer::analyze
ComplexityAnalyze(cfg, root) == AnalyzeDepth(cfg, root) \o AnalyzeSizes(cfg, root, 0)

\* ------------------------------------------------------------------------
\* SmellDetector (linter/smells.rs)
\* ------------------------------------------------------------------------
RECURSIVE CollectAnchors(_)
CollectAnchors(value) ==
    (IF value.anchor # NoAnchor THEN {value.anchor} ELSE {})
    \cup
    CASE value.kind = "Object" ->
            UNION {IF IsPair(value.members[i])
                   THEN CollectAnchors(value.members[i].value) ELSE {} :
                      i \in DOMAIN value.members}
      [] value.kind = "Array" ->
            UNION {CollectAnchors(value.items[i]) : i \in DOMAIN value.items}
      [] OTHER -> {}

RECURSIVE CollectAliases(_)
CollectAliases(value) ==
    CASE value.kind = "Alias" -> {value.name}
      [] value.kind = "ArraySpread" -> {value.name}
      [] value.kind = "Object" ->
            UNION {CASE value.members[i].mk = "Pair" ->
                            CollectAliases(value.members[i].value)
                     [] value.members[i].mk = "Spread" -> {value.members[i].name}
                     [] OTHER -> {} :
                      i \in DOMAIN value.members}
      [] value.kind = "Array" ->
            UNION {CollectAliases(value.items[i]) : i \in DOMAIN value.items}
      [] OTHER -> {}

\* mutant: the used set is not consulted
DetectUnusedAnchorsAll(root, order) ==
    [i \in DOMAIN order |->
        AddDiagnostic("LINT2001", <<"Anchor is defined but never used", order[i]>>)]

\* detect_unused_anchors; order is the order in which the HashSet
\* defined_anchors yields its elements
DetectUnusedAnchors(root, order) ==
    LET used_anchors == CollectAliases(root)
        unused == SelectSeq(order, LAMBDA anchor : anchor \notin used_anchors)
    IN  [i \in DOMAIN unused |->
            AddDiagnostic("LINT2001", <<"Anchor is defined but never used", unused[i]>>)]

\* the numbers detect_magic_numbers skips: |n| <= 1, 10, 100, 1000
IsCommonNumber(n) ==
    LET abs_n == IF n < 0 THEN -n ELSE n
    IN  ~(abs_n > 1 /\ abs_n # 10 /\ abs_n # 100 /\ abs_n # 1000)

RECURSIVE DetectMagicNumbers(_)
DetectMagicNumbers(value) ==
    CASE value.kind = "Number" ->
            IF ~IsCommonNumber(value.n)
            THEN <<AddDiagnostic("LINT2004", <<"magic number", value.n>>)>>
            ELSE <<>>
      [] value.kind = "Object" ->
            ConcatAll([i \in DOMAIN value.members |->
                IF IsPair(value.members[i])
                THEN DetectMagicNumbers(value.members[i].value) ELSE <<>>])
      [] value.kind = "Array" ->
            ConcatAll([i \in DOMAIN value.items |-> DetectMagicNumbers(value.items[i])])
      [] OTHER -> <<>>

\* mutant: the key of member i itself counts as seen
SeenKeysInclusive(members, i) == {members[j].key : j \in {j \in 1..i : IsPair(members[j])}}

\* the keys of the Pair members before position i: seen_keys when the loop
\* of detect_duplicate_keys reaches member i
SeenKeys(members, i) == {members[j].key : j \in {j \in 1..(i - 1) : IsPair(members[j])}}

RECURSIVE DetectDuplicateKeys(_)
DetectDuplicateKeys(value) ==
    CASE value.kind = "Object" ->
            ConcatAll([i \in DOMAIN value.members |->
                IF IsPair(value.members[i])
                THEN (IF value.members[i].key \in SeenKeys(value.members, i)
                      THEN <<AddDiagnostic("LINT2002",
                                <<"Duplicate key in object", value.members[i].key>>)>>
                      ELSE <<>>)
                     \o DetectDuplicateKeys(value.members[i].value)
                ELSE <<>>])
      [] value.kind = "Array" ->
            ConcatAll([i \in DOMAIN value.items |-> DetectDuplicateKeys(value.items[i])])
      [] OTHER -> <<>>

RECURSIVE DetectExcessiveSpreads(_)
DetectExcessiveSpreads(value) ==
    CASE value.kind = "Object" ->
            LET spread_count == Count(value.members, LAMBDA m : m.mk = "Spread") IN
            (IF spread_count > 3
             THEN <<AddDiagnostic("LINT2003", <<"Object has spreads", spread_count>>)>>
             ELSE <<>>)
            \o ConcatAll([i \in DOMAIN value.members |->
                IF IsPair(value.members[i])
                THEN DetectExcessiveSpreads(value.members[i].value) ELSE <<>>])
      [] value.kind = "Array" ->
            ConcatAll([i \in DOMAIN value.items |-> DetectExcessiveSpreads(value.items[i])])
      [] OTHER -> <<>>

RECURSIVE DetectEmptyStructures(_)
DetectEmptyStructures(value) ==
    CASE value.kind = "Object" ->
            (IF RegularMembers(value.members) = <<>>
             THEN <<AddDiagnostic("LINT3003", <<"Empty object found">>)>>
             ELSE <<>>)
            \o ConcatAll([i \in DOMAIN value.members |->
                IF IsPair(value.members[i])
                THEN DetectEmptyStructures(value.members[i].value) ELSE <<>>])
      [] value.kind = "Array" ->
            (IF value.items = <<>>
             THEN <<AddDiagnostic("LINT3003", <<"Empty array found">>)>>
             ELSE <<>>)
            \o ConcatAll([i \in DOMAIN value.items |-> DetectEmptyStructures(value.items[i])])
      [] OTHER -> <<>>

\* key.contains('_') and key.chars().any(is_uppercase) on the keys of the model
UnderscoreKeys == {"a_b", "A_b"}
UppercaseKeys == {"aB", "A_b"}

RECURSIVE DetectInconsistentNaming(_)
DetectInconsistentNaming(value) ==
    IF value.kind = "Object"
    THEN LET snake_case_count ==
                Count(value.members, LAMBDA m : IsPair(m) /\ m.key \in UnderscoreKeys)
             camel_case_count ==
                Count(value.members, LAMBDA m : IsPair(m) /\ m.key \notin UnderscoreKeys
                                                /\ m.key \in UppercaseKeys)
         IN  ConcatAll([i \in DOMAIN value.members |->
                IF IsPair(value.members[i])
                THEN DetectInconsistentNaming(value.members[i].value) ELSE <<>>])
             \o (IF snake_case_count > 0 /\ camel_case_count > 0
                 THEN <<AddDiagnostic("LINT3002",
                            <<"mixed naming styles", snake_case_count, camel_case_count>>)>>
                 ELSE <<>>)
    ELSE <<>>

\* SmellDetector::detect
SmellDetect(cfg, root, order) ==
    (IF cfg.warn_unused_anchors THEN DetectUnusedAnchors(root, order) ELSE <<>>)
    \o (IF cfg.warn_magic_numbers THEN DetectMagicNumbers(root) ELSE <<>>)
    \o DetectDuplicateKeys(root)
    \o DetectExcessiveSpreads(root)
    \o DetectEmptyStructures(root)
    \o DetectInconsistentNaming(root)

\* ------------------------------------------------------------------------
\* ImportAnalyzer (linter/imports.rs)
\* ------------------------------------------------------------------------
\* name.contains('.') on the names of the model
NamespacedNames == {"ns.a"}

RECURSIVE CountNamespaceRefs(_)
CountNamespaceRefs(value) ==
    CASE value.kind \in {"Alias", "ArraySpread"} ->
            IF value.name \in NamespacedNames THEN 1 ELSE 0
      [] value.kind = "Object" ->
            SumAll([i \in DOMAIN value.members |->
                CASE value.members[i].mk = "Pair" ->
                        CountNamespaceRefs(value.members[i].value)
                  [] value.members[i].mk = "Spread" ->
                        IF value.members[i].name \in NamespacedNames THEN 1 ELSE 0
                  [] OTHER -> 0])
      [] value.kind = "Array" ->
            SumAll([i \in DOMAIN value.items |-> CountNamespaceRefs(value.items[i])])
      [] OTHER -> 0

\* ImportAnalyzer::analyze (detect_namespace_complexity)
ImportAnalyze(cfg, root) ==
    LET namespace_references == CountNamespaceRefs(root) IN
    IF namespace_references > cfg.max_import_chain_depth * 3
    THEN <<AddDiagnostic("LINT4001", <<"namespaced references", namespace_references>>)>>
    ELSE <<>>

\* ------------------------------------------------------------------------
\* Linter::lint (linter/mod.rs)
\* ------------------------------------------------------------------------
\* the import analysis run before the other two
LinterLintImportFirst(cfg, document, order) ==
    ImportAnalyze(cfg, document.root)
    \o ComplexityAnalyze(cfg, document.root)
    \o SmellDetect(cfg, document.root, order)

LinterLint(cfg, document, order) ==
    ComplexityAnalyze(cfg, document.root)
    \o SmellDetect(cfg, document.root, order)
    \o ImportAnalyze(cfg, document.root)

\* ------------------------------------------------------------------------
\* SymbolTable (linter/symbol_table.rs)
\* ------------------------------------------------------------------------
\* SymbolTable::new: two empty maps keyed by <<name, kind>>
NewSymbolTable == [symbols |-> <<>>, references |-> <<>>]

\* insert that keeps a symbol already stored under the key
AddSymbolKeepFirst(table, symbol) ==
    [table EXCEPT !.symbols = @ @@ (<<symbol.name, symbol.kind>> :> symbol)]

\* SymbolTable::add_symbol: insert, replacing a symbol with the same key
AddSymbol(table, symbol) ==
    [table EXCEPT !.symbols = (<<symbol.name, symbol.kind>> :> symbol) @@ @]

\* add_reference that drops a reference to a symbol not yet defined
AddReferenceIfDefined(table, reference) ==
    LET key == <<reference.symbol_name, reference.symbol_kind>> IN
    IF key \notin DOMAIN table.symbols THEN table
    ELSE [table EXCEPT !.references =
            IF key \in DOMAIN @
            THEN [@ EXCEPT ![key] = Append(@, reference)]
            ELSE (key :> <<reference>>) @@ @]

\* add_reference that pushes to the front of the list
AddReferenceFront(table, reference) ==
    LET key == <<reference.symbol_name, reference.symbol_kind>> IN
    [table EXCEPT !.references =
        IF key \in DOMAIN @
        THEN [@ EXCEPT ![key] = <<reference>> \o @]
        ELSE (key :> <<reference>>) @@ @]

\* SymbolTable::add_reference: entry(key).or_default().push(reference)
AddReference(table, reference) ==
    LET key == <<reference.symbol_name, reference.symbol_kind>> IN
    [table EXCEPT !.references =
        IF key \in DOMAIN @
        THEN [@ EXCEPT ![key] = Append(@, reference)]
        ELSE (key :> <<reference>>) @@ @]

FindSymbolIsSome(table, name, kind) == <<name, kind>> \in DOMAIN table.symbols

FindReferences(table, name, kind) ==
    IF <<name, kind>> \in DOMAIN table.references
    THEN table.references[<<name, kind>>] ELSE <<>>

\* SymbolTable::find_symbol: Some(symbol) or None
FindSymbol(table, name, kind) ==
    IF <<name, kind>> \in DOMAIN table.symbols
    THEN [some |-> TRUE, symbol |-> table.symbols[<<name, kind>>]]
    ELSE [some |-> FALSE]

\* SymbolTable::clear
Clear(table) == [symbols |-> <<>>, references |-> <<>>]

\* SymbolTable::symbol_count
SymbolCount(table) == Cardinality(DOMAIN table.symbols)

\* SymbolTable::reference_count
ReferenceCount(table) ==
    LET keys == CHOOSE order \in Orders(DOMAIN table.references) : TRUE IN
    SumAll([i \in DOMAIN keys |-> Len(table.references[keys[i]])])

\* mutant: the reference list is not consulted
IsUnusedDefinedOnly(table, name, kind) == FindSymbolIsSome(table, name, kind)

IsUnused(table, name, kind) ==
    FindSymbolIsSome(table, name, kind) /\ FindReferences(table, name, kind) = <<>>

\* find_unused_symbols; order is the order in which the HashMap symbols
\* yields its keys
FindUnusedSymbols(table, kind, order) ==
    LET keys == SelectSeq(order, LAMBDA k : k[2] = kind /\ IsUnused(table, k[1], kind))
    IN  [i \in DOMAIN keys |-> table.symbols[keys[i]]]

\* ------------------------------------------------------------------------
\* AnalysisService (linter/api.rs)
\* ------------------------------------------------------------------------
\* Range::from_byte_offsets(source, value.pos_start, value.pos_end): the span
\* of a value, identified by the value's path from the root
SpanOf(path) == <<"span", path>>

GetValuePreview(value) ==
    CASE value.kind = "Object" -> "{ ... }"
      [] value.kind = "Array" -> "[ ... ]"
      [] value.kind = "Null" -> "null"
      [] value.kind = "Number" -> "number"
      [] OTHER -> "None"

RECURSIVE BuildSymbolsFromValue(_, _, _), BuildSymbolsFromChildren(_, _, _, _)
BuildSymbolsFromValue(value, path, table) ==
    LET t1 == IF value.anchor # NoAnchor
              THEN AddSymbol(table, [name |-> value.anchor, kind |-> "Anchor",
                                     range |-> SpanOf(path),
                                     detail |-> GetValuePreview(value)])
              ELSE table
    IN  CASE value.kind = "Alias" ->
                AddReference(t1, [symbol_name |-> value.name, symbol_kind |-> "Anchor",
                                  range |-> SpanOf(path), reference_kind |-> "Alias"])
          [] value.kind = "ArraySpread" ->
                AddReference(t1, [symbol_name |-> value.name, symbol_kind |-> "Anchor",
                                  range |-> SpanOf(path), reference_kind |-> "Spread"])
          [] value.kind \in {"Object", "Array"} ->
                BuildSymbolsFromChildren(value, path, 1, t1)
          [] OTHER -> t1

\* the loops over members / items, from child i on
BuildSymbolsFromChildren(value, path, i, table) ==
    IF value.kind = "Object"
    THEN IF i > Len(value.members) THEN table
         ELSE LET member == value.members[i]
                  t2 == CASE member.mk = "TypeDefinition" ->
                                AddSymbol(table, [name |-> member.name, kind |-> "Type",
                                                  range |-> SpanOf(path),
                                                  detail |-> "typedef"])
                          [] member.mk = "Pair" ->
                                BuildSymbolsFromValue(member.value, Append(path, i), table)
                          [] member.mk = "Spread" ->
                                AddReference(table, [symbol_name |-> member.name,
                                                     symbol_kind |-> "Anchor",
                                                     range |-> SpanOf(path),
                                                     reference_kind |-> "Spread"])
                          [] OTHER -> table
              IN  BuildSymbolsFromChildren(value, path, i + 1, t2)
    ELSE IF i > Len(value.items) THEN table
         ELSE BuildSymbolsFromChildren(value, path, i + 1,
                    BuildSymbolsFromValue(value.items[i], Append(path, i), table))

RECURSIVE BuildImportSymbols(_, _, _)
BuildImportSymbols(imports, i, table) ==
    IF i > Len(imports) THEN table
    ELSE BuildImportSymbols(imports, i + 1,
            AddSymbol(table, [name |-> imports[i].path, kind |-> "Import",
                              range |-> <<"import", i>>, detail |-> "import"]))

\* AnalysisService::build_symbol_table
BuildSymbolTable(document) ==
    BuildSymbolsFromValue(document.root, <<>>,
        BuildImportSymbols(document.imports, 1, NewSymbolTable))

\* AnalysisService::detect_unused_symbols: the diagnostics it appends
DetectUnusedSymbols(cfg, table, order) ==
    IF cfg.warn_unused_anchors
    THEN LET unused == FindUnusedSymbols(table, "Anchor", order) IN
         [i \in DOMAIN unused |->
            AddDiagnosticWithRange("LINT2001",
                <<"Anchor is defined but never used", unused[i].name>>,
                unused[i].range, {"Unnecessary"})]
    ELSE <<>>

\* AnalysisService::analyze_document on a source the parser accepts
AnalyzeDocument(cfg, document, set_order, map_order) ==
    LET lint_result == LinterLint(cfg, document, set_order)
        table == BuildSymbolTable(document)
    IN  [diagnostics |-> lint_result \o DetectUnusedSymbols(cfg, table, map_order),
         symbol_table |-> table]

VARIABLES doc, config, op, runs, diagnostics, previous, symbol_table,
          input, fconfig, output, reformatted,
          file, fmt_result, files, out_format, batch,
          calls, content, start_offset, end_offset, span,
          arguments, returned

vars == <<doc, config, op, runs, diagnostics, previous, symbol_table,
          input, fconfig, output, reformatted,
          file, fmt_result, files, out_format, batch,
          calls, content, start_offset, end_offset, span,
          arguments, returned>>

\* the fmt and lint commands: the file on disk and what fmt returned, the
\* files of a lint batch, its output format and how it ended
command_vars == <<file, fmt_result, files, out_format, batch>>
\* the calls made on a LintResult or SymbolTable since it was created
object_vars == <<calls>>
\* Position / Range conversions: the text, two byte offsets, the Range
position_vars == <<content, start_offset, end_offset, span>>
\* a call of a free function: its arguments and what it returned
call_vars == <<arguments, returned>>

lint_vars == <<op, runs, diagnostics, previous, symbol_table>>
format_vars == <<input, fconfig, output, reformatted>>

\* ------------------------------------------------------------------------
\* Text: a sequence of lexemes; its bytes are the lexemes concatenated
\* ------------------------------------------------------------------------
RECURSIVE Repeat(_, _)
Repeat(str, n) == IF n = 0 THEN "" ELSE str \o Repeat(str, n - 1)

\* the String a lexeme sequence stands for
RECURSIVE Text(_)
Text(tokens) == IF tokens = <<>> THEN "" ELSE Head(tokens) \o Text(Tail(tokens))

\* String::len of the text: its length in bytes
Width(tokens) == SumAll([i \in DOMAIN tokens |-> Len(tokens[i])])

\* parts.join(", ")
RECURSIVE JoinComma(_)
JoinComma(parts) ==
    IF parts = <<>> THEN <<>>
    ELSE IF Len(parts) = 1 THEN parts[1]
    ELSE parts[1] \o <<",", " ">> \o JoinComma(Tail(parts))

\* ------------------------------------------------------------------------
\* Formatter (formatter/format.rs, formatter/config.rs)
\* ------------------------------------------------------------------------
\* FormatConfig::indent_string
IndentString(cfg) ==
    IF cfg.indent_style = "Spaces" THEN Repeat(" ", cfg.indent_size) ELSE "\t"

\* Formatter::indent_at
IndentAt(cfg, depth) == [i \in 1..depth |-> IndentString(cfg)]

\* Formatter::should_add_trailing_comma
ShouldAddTrailingComma(cfg, is_multiline) ==
    CASE cfg.trailing_commas = "Always" -> TRUE
      [] cfg.trailing_commas = "Never" -> FALSE
      [] cfg.trailing_commas = "Multiline" -> is_multiline

\* the comma after element i of n in an expanded container
CommaAfter(cfg, i, n) ==
    IF i < n THEN <<",">>
    ELSE IF ShouldAddTrailingComma(cfg, TRUE) THEN <<",">> ELSE <<>>

IsContainer(value) == value.kind \in {"Object", "Array"}

\* Formatter::should_expand_array
ShouldExpandArray(cfg, items) ==
    CASE cfg.array_style = "Expanded" -> TRUE
      [] cfg.array_style = "Compact" -> FALSE
      [] cfg.array_style = "Auto" ->
            \/ Len(items) > cfg.array_expand_threshold
            \/ \E i \in DOMAIN items : IsContainer(items[i])

\* Formatter::should_expand_object
ShouldExpandObject(cfg, members) ==
    CASE cfg.object_style = "Expanded" -> TRUE
      [] cfg.object_style = "Compact" -> FALSE
      [] cfg.object_style = "Auto" ->
            \/ Len(members) > cfg.object_expand_threshold
            \/ \E i \in DOMAIN members :
                  IsPair(members[i]) /\ IsContainer(members[i].value)

\* needs_quotes on the keys of the model
QuotedKeys == {"a b"}
NeedsQuotes(key) == key \in QuotedKeys

\* Formatter::format_string
FormatString(str) == "\"" \o str \o "\""

\* the key position of a Pair: &key when the value's anchor is the key
KeyPart(pair) ==
    IF pair.value.anchor = pair.key THEN "&" \o pair.key
    ELSE IF NeedsQuotes(pair.key) THEN FormatString(pair.key) ELSE pair.key

\* Formatter::format_typedef (enum definitions)
FormatTypedef(cfg, typedef) ==
    <<typedef.name, ":", " ", "#enum", " ", "{", "\n">>
    \o ConcatAll([i \in DOMAIN typedef.variants |->
            <<IndentString(cfg), IndentString(cfg), typedef.variants[i]>>
            \o CommaAfter(cfg, i, Len(typedef.variants))
            \o <<"\n">>])
    \o <<IndentString(cfg), "}">>

\* format_object on an empty member list, the two texts exchanged
FormatEmptyObjectSwapped(cfg) ==
    IF cfg.single_line_empty_objects THEN <<"{", "\n", "}">> ELSE <<"{", "}">>

\* format_object on an empty member list
FormatEmptyObject(cfg) ==
    IF cfg.single_line_empty_objects THEN <<"{", "}">> ELSE <<"{", "\n", "}">>

\* format_array on an empty item list
FormatEmptyArray(cfg) ==
    IF cfg.single_line_empty_arrays THEN <<"[", "]">> ELSE <<"[", "\n", "]">>

RECURSIVE FormatValue(_, _, _), FormatValueKind(_, _, _), FormatArray(_, _, _),
          FormatArrayExpanded(_, _, _), FormatArraySingleLine(_, _, _),
          FormatObject(_, _, _), FormatObjectExpanded(_, _, _),
          FormatObjectSingleLine(_, _, _)

\* Formatter::format_value: the anchor prefix, then the kind
FormatValue(cfg, value, depth) ==
    (IF value.anchor # NoAnchor THEN <<"&" \o value.anchor, " ">> ELSE <<>>)
    \o FormatValueKind(cfg, value, depth)

\* Formatter::format_value_kind (and format_value_without_anchor)
FormatValueKind(cfg, value, depth) ==
    CASE value.kind = "Null" -> <<"null">>
      [] value.kind = "Number" -> <<ToString(value.n)>>
      [] value.kind = "Array" -> FormatArray(cfg, value.items, depth)
      [] value.kind = "Object" -> FormatObject(cfg, value.members, depth)
      [] value.kind = "Alias" -> <<"*" \o value.name>>
      [] value.kind = "ArraySpread" -> <<"...*" \o value.name>>

\* Formatter::format_array_expanded, and the expanded branch of format_array
FormatArrayExpanded(cfg, items, depth) ==
    <<"[", "\n">>
    \o ConcatAll([i \in DOMAIN items |->
            IndentAt(cfg, depth + 1)
            \o FormatValue(cfg, items[i], depth + 1)
            \o CommaAfter(cfg, i, Len(items))
            \o <<"\n">>])
    \o IndentAt(cfg, depth) \o <<"]">>

\* the single-line text format_array builds before it checks the width
FormatArraySingleLine(cfg, items, depth) ==
    LET space == IF cfg.space_in_brackets THEN <<" ">> ELSE <<>> IN
    <<"[">> \o space
    \o JoinComma([i \in DOMAIN items |-> FormatValue(cfg, items[i], depth)])
    \o space \o <<"]">>

\* Formatter::format_array
FormatArray(cfg, items, depth) ==
    IF items = <<>> THEN FormatEmptyArray(cfg)
    ELSE IF ShouldExpandArray(cfg, items) THEN FormatArrayExpanded(cfg, items, depth)
    ELSE LET formatted == FormatArraySingleLine(cfg, items, depth) IN
         IF Width(formatted) > cfg.max_line_width
         THEN FormatArrayExpanded(cfg, items, depth)
         ELSE formatted

\* the expanded branch of format_object
FormatObjectExpanded(cfg, members, depth) ==
    <<"{", "\n">>
    \o ConcatAll([i \in DOMAIN members |->
            IndentAt(cfg, depth + 1)
            \o (CASE members[i].mk = "Pair" ->
                        <<KeyPart(members[i])>>
                        \o (IF cfg.space_before_colon THEN <<" ">> ELSE <<>>)
                        \o <<":">>
                        \o (IF cfg.space_after_colon THEN <<" ">> ELSE <<>>)
                        \o (IF members[i].value.anchor = members[i].key
                            THEN FormatValueKind(cfg, members[i].value, depth + 1)
                            ELSE FormatValue(cfg, members[i].value, depth + 1))
                        \o CommaAfter(cfg, i, Len(members)) \o <<"\n">>
                  [] members[i].mk = "Spread" ->
                        <<"...*" \o members[i].name>>
                        \o CommaAfter(cfg, i, Len(members)) \o <<"\n">>
                  [] members[i].mk = "TypeDefinition" ->
                        FormatTypedef(cfg, members[i])
                        \o CommaAfter(cfg, i, Len(members)) \o <<"\n">>
                  [] members[i].mk = "Import" -> <<>>)])
    \o IndentAt(cfg, depth) \o <<"}">>

\* the parts the single-line branch of format_object keeps (filter_map)
SingleLineParts(cfg, members, depth) ==
    LET kept == SelectSeq(members, LAMBDA m : m.mk \in {"Pair", "Spread"}) IN
    [i \in DOMAIN kept |->
        IF kept[i].mk = "Pair"
        THEN <<KeyPart(kept[i]), ":">>
             \o (IF cfg.space_after_colon THEN <<" ">> ELSE <<>>)
             \o (IF kept[i].value.anchor = kept[i].key
                 THEN FormatValueKind(cfg, kept[i].value, depth)
                 ELSE FormatValue(cfg, kept[i].value, depth))
        ELSE <<"...*" \o kept[i].name>>]

\* the single-line branch of format_object
FormatObjectSingleLine(cfg, members, depth) ==
    <<"{", " ">> \o JoinComma(SingleLineParts(cfg, members, depth)) \o <<" ", "}">>

\* Formatter::format_object
FormatObject(cfg, members, depth) ==
    IF members = <<>> THEN FormatEmptyObject(cfg)
    ELSE IF ShouldExpandObject(cfg, members) THEN FormatObjectExpanded(cfg, members, depth)
    ELSE FormatObjectSingleLine(cfg, members, depth)

\* ------------------------------------------------------------------------
\* The parser (mon_core::parser::Parser), on the lexemes of a source text
\* ------------------------------------------------------------------------
WhitespaceTokens == {" ", "\n", "\t"} \cup {Repeat(" ", n) : n \in 2..8}
CommentTokens == {"// c"}
NumberLiterals == 0..9

\* the lexer drops whitespace and comments
Lex(tokens) == SelectSeq(tokens, LAMBDA t : t \notin WhitespaceTokens \cup CommentTokens)

TokAt(ts, i) == IF i \in DOMAIN ts THEN ts[i] ELSE "<eof>"

ParseFail == [ok |-> FALSE]

IsIdentifier(t) == t \in Keys \cup TypeNames
IsAnchoredKey(t) == t \in {"&" \o k : k \in Keys \cup TypeNames}
IsSpreadToken(t) == t \in {"...*" \o n : n \in Names}
IsAliasToken(t) == t \in {"*" \o n : n \in Names}

\* the variants of an enum body, from the token after "{"
RECURSIVE ParseVariants(_, _, _)
ParseVariants(ts, i, acc) ==
    LET t == TokAt(ts, i) IN
    IF t = "}" THEN [ok |-> acc # <<>>, variants |-> acc, next |-> i + 1]
    ELSE IF t \in {"<eof>", ",", "{", ":"} THEN ParseFail
    ELSE IF TokAt(ts, i + 1) = "," THEN ParseVariants(ts, i + 2, Append(acc, t))
    ELSE IF TokAt(ts, i + 1) = "}"
         THEN [ok |-> TRUE, variants |-> Append(acc, t), next |-> i + 2]
    ELSE ParseFail

RECURSIVE ParseValue(_, _), ParseMember(_, _), ParseMembers(_, _, _), ParseItems(_, _, _)
ParseValue(ts, i) ==
    LET t == TokAt(ts, i) IN
    CASE t = "null" -> [ok |-> TRUE, value |-> NullV(NoAnchor), next |-> i + 1]
      [] t \in {ToString(n) : n \in NumberLiterals} ->
            [ok |-> TRUE, next |-> i + 1,
             value |-> NumberV(NoAnchor, CHOOSE n \in NumberLiterals : ToString(n) = t)]
      [] IsAliasToken(t) ->
            [ok |-> TRUE, next |-> i + 1,
             value |-> AliasV(CHOOSE n \in Names : "*" \o n = t)]
      [] t = "{" -> ParseMembers(ts, i + 1, <<>>)
      [] t = "[" -> ParseItems(ts, i + 1, <<>>)
      [] OTHER -> ParseFail

\* Member ::= Spread | [Anchor] Key ":" Value | Name ":" "#enum" "{" ... "}"
ParseMember(ts, i) ==
    LET t == TokAt(ts, i) IN
    CASE IsSpreadToken(t) ->
            [ok |-> TRUE, next |-> i + 1,
             member |-> Spread(CHOOSE n \in Names : "...*" \o n = t)]
      [] IsIdentifier(t) /\ TokAt(ts, i + 1) = ":" /\ TokAt(ts, i + 2) = "#enum" ->
            IF TokAt(ts, i + 3) # "{" THEN ParseFail
            ELSE LET vs == ParseVariants(ts, i + 4, <<>>) IN
                 IF ~vs.ok THEN ParseFail
                 ELSE [ok |-> TRUE, next |-> vs.next,
                       member |-> [mk |-> "TypeDefinition", name |-> t,
                                   def_type |-> "Enum", variants |-> vs.variants]]
      [] IsIdentifier(t) /\ TokAt(ts, i + 1) = ":" /\ TokAt(ts, i + 2) # "#enum" ->
            LET v == ParseValue(ts, i + 2) IN
            IF ~v.ok THEN ParseFail
            ELSE [ok |-> TRUE, next |-> v.next, member |-> Pair(t, v.value)]
      [] IsAnchoredKey(t) /\ TokAt(ts, i + 1) = ":" ->
            LET key == CHOOSE k \in Keys \cup TypeNames : "&" \o k = t
                v == ParseValue(ts, i + 2)
            IN  IF ~v.ok THEN ParseFail
                ELSE [ok |-> TRUE, next |-> v.next,
                      member |-> Pair(key, [v.value EXCEPT !.anchor = key])]
      [] OTHER -> ParseFail

\* the members of an object, from the token after "{"; a trailing comma is
\* accepted
ParseMembers(ts, i, acc) ==
    IF TokAt(ts, i) = "}"
    THEN [ok |-> TRUE, value |-> ObjectV(NoAnchor, acc), next |-> i + 1]
    ELSE LET m == ParseMember(ts, i) IN
         IF ~m.ok THEN ParseFail
         ELSE IF TokAt(ts, m.next) = ","
              THEN ParseMembers(ts, m.next + 1, Append(acc, m.member))
         ELSE IF TokAt(ts, m.next) = "}"
              THEN [ok |-> TRUE, value |-> ObjectV(NoAnchor, Append(acc, m.member)),
                    next |-> m.next + 1]
         ELSE ParseFail

\* the items of an array, from the token after "["; a trailing comma is
\* accepted
ParseItems(ts, i, acc) ==
    IF TokAt(ts, i) = "]"
    THEN [ok |-> TRUE, value |-> ArrayV(NoAnchor, acc), next |-> i + 1]
    ELSE LET v == IF IsSpreadToken(TokAt(ts, i))
                  THEN [ok |-> TRUE, next |-> i + 1,
                        value |-> ArraySpreadV(CHOOSE n \in Names :
                                                  "...*" \o n = TokAt(ts, i))]
                  ELSE ParseValue(ts, i)
         IN
         IF ~v.ok THEN ParseFail
         ELSE IF TokAt(ts, v.next) = ","
              THEN ParseItems(ts, v.next + 1, Append(acc, v.value))
         ELSE IF TokAt(ts, v.next) = "]"
              THEN [ok |-> TRUE, value |-> ArrayV(NoAnchor, Append(acc, v.value)),
                    next |-> v.next + 1]
         ELSE ParseFail

\* Parser::new(source) and parse_document: a document is one root object
ParseDocument(source) ==
    LET ts == Lex(source)
        r == ParseValue(ts, 1)
    IN  IF r.ok /\ r.next = Len(ts) + 1 /\ r.value.kind = "Object"
        THEN [ok |-> TRUE, doc |-> [imports |-> <<>>, root |-> r.value]]
        ELSE ParseFail

\* ------------------------------------------------------------------------
\* Formatter::format (formatter/format.rs)
\* ------------------------------------------------------------------------
\* source.lines(): the lexemes of each line
RECURSIVE SplitLines(_, _)
SplitLines(tokens, line) ==
    IF tokens = <<>> THEN (IF line = <<>> THEN <<>> ELSE <<line>>)
    ELSE IF Head(tokens) = "\n" THEN <<line>> \o SplitLines(Tail(tokens), <<>>)
    ELSE SplitLines(Tail(tokens), Append(line, Head(tokens)))

NoComment == [found |-> FALSE]

\* extract_comments on one line: the comment from the first // on
CommentOfLine(line) ==
    LET starts == {i \in DOMAIN line : line[i] \in CommentTokens} IN
    IF starts = {} THEN NoComment
    ELSE LET comment_start == CHOOSE i \in starts : \A j \in starts : i <= j IN
         [found |-> TRUE,
          text |-> line[comment_start],
          is_trailing |-> \E j \in 1..(comment_start - 1) : line[j] \notin WhitespaceTokens]

\* extract_comments and build_comment_map: comment_map[n + 1] is the comment
\* of line n
CommentMap(source) ==
    LET lines == SplitLines(source, <<>>) IN
    [n \in DOMAIN lines |-> CommentOfLine(lines[n])]

\* the top-of-file loop of format: the standalone comments of lines 0, 1, ...
RECURSIVE TopOfFileComments(_, _)
TopOfFileComments(comment_map, current_line) ==
    IF /\ current_line + 1 \in DOMAIN comment_map
       /\ comment_map[current_line + 1].found
       /\ ~comment_map[current_line + 1].is_trailing
    THEN <<comment_map[current_line + 1].text, "\n">>
         \o TopOfFileComments(comment_map, current_line + 1)
    ELSE <<>>

\* the final-newline step of format
EnsureFinalNewline(cfg, out) ==
    IF cfg.final_newline /\ ~(out # <<>> /\ out[Len(out)] = "\n")
    THEN Append(out, "\n")
    ELSE out

\* an Err that carries the text rendered so far
FormatErrorPartial == [ran |-> TRUE, ok |-> FALSE, text |-> <<"{">>]

FormatError == [ran |-> TRUE, ok |-> FALSE, text |-> <<>>]

\* Formatter::format: Err on a parse failure, else the comments at the top of
\* the file, the root value and the final newline (the documents of the model
\* have no import statements)
FormatterFormat(cfg, source) ==
    LET parsed == ParseDocument(source) IN
    IF ~parsed.ok THEN FormatError
    ELSE [ran |-> TRUE, ok |-> TRUE,
          text |-> EnsureFinalNewline(cfg,
                      TopOfFileComments(CommentMap(source), 0)
                      \o FormatValue(cfg, parsed.doc.root, 0))]

\* ------------------------------------------------------------------------
\* State and operations
\* ------------------------------------------------------------------------
\* LintConfig values of the structure documents
StructureConfigs ==
    [max_nesting_depth : {0, 1}, max_object_members : {1, 2}, max_array_items : {1},
     max_import_chain_depth : {2}, warn_unused_anchors : {TRUE},
     warn_magic_numbers : {FALSE}]

\* LintConfig values of the anchor documents: LintConfig::default() and
\* warn_unused_anchors switched off
AnchorConfigs ==
    [max_nesting_depth : {4}, max_object_members : {20}, max_array_items : {100},
     max_import_chain_depth : {2}, warn_unused_anchors : BOOLEAN,
     warn_magic_numbers : {FALSE}]

NoPrevious == [ran |-> FALSE, diagnostics |-> <<>>]

InitCommon ==
    /\ op = "none"
    /\ runs = 0
    /\ diagnostics = <<>>
    /\ previous = NoPrevious
    /\ symbol_table = NewSymbolTable

\* FormatConfig::default()
DefaultFormatConfig ==
    [indent_style |-> "Spaces", indent_size |-> 4, max_line_width |-> 80,
     object_style |-> "Auto", object_expand_threshold |-> 3,
     space_before_colon |-> FALSE, space_after_colon |-> TRUE,
     array_style |-> "Auto", array_expand_threshold |-> 5,
     space_in_brackets |-> FALSE, trailing_commas |-> "Multiline",
     single_line_empty_objects |-> TRUE, single_line_empty_arrays |-> TRUE,
     final_newline |-> TRUE]

\* LintConfig::default()
DefaultLintConfig ==
    [max_nesting_depth |-> 4, max_object_members |-> 20, max_array_items |-> 100,
     max_import_chain_depth |-> 2, warn_unused_anchors |-> TRUE,
     warn_magic_numbers |-> FALSE]

\* no call of Formatter::format yet
NotFormatted == [ran |-> FALSE, ok |-> FALSE, text |-> <<>>]

\* no fmt command has run
NoFmtResult == [status |-> "none", stdout |-> <<>>]
\* no lint command has run
NoBatch == [status |-> "none", all_results |-> <<>>, reported |-> <<>>]
\* no Range has been computed
NoSpan == <<>>
\* no free function has been called
NoArguments == <<>>
NotReturned == <<>>

\* no command, no direct calls on a LintResult or SymbolTable, no position
\* conversion
NoCommand ==
    /\ file = <<>>
    /\ fmt_result = NoFmtResult
    /\ files = <<>>
    /\ out_format = "text"
    /\ batch = NoBatch
    /\ calls = <<>>
    /\ content = <<>>
    /\ start_offset = 0
    /\ end_offset = 0
    /\ span = NoSpan
    /\ arguments = NoArguments
    /\ returned = NotReturned

\* the linter runs have no formatter at work
NoFormatter ==
    /\ input = <<>>
    /\ fconfig = DefaultFormatConfig
    /\ output = NotFormatted
    /\ reformatted = NotFormatted
    /\ NoCommand

Init ==
    /\ doc \in Documents("structure", MaxNodes)
    /\ config \in StructureConfigs
    /\ InitCommon
    /\ NoFormatter

InitAnchors ==
    /\ doc \in Documents("anchors", MaxAnchorNodes)
    /\ config \in AnchorConfigs
    /\ InitCommon
    /\ NoFormatter

\* one call of Linter::lint(doc)
Lint ==
    /\ op \in {"none", "lint"}
    /\ runs < MaxRuns
    /\ \E order \in Orders(CollectAnchors(doc.root)) :
          diagnostics' = LinterLint(config, doc, order)
    /\ previous' = [ran |-> runs > 0, diagnostics |-> diagnostics]
    /\ op' = "lint"
    /\ runs' = runs + 1
    /\ UNCHANGED <<doc, config, symbol_table>>
    /\ UNCHANGED format_vars
    /\ UNCHANGED <<command_vars, object_vars, position_vars, call_vars>>

\* one call of AnalysisService::analyze_document(source of doc)
Analyze ==
    /\ op \in {"none", "analyze"}
    /\ runs < MaxRuns
    /\ \E set_order \in Orders(CollectAnchors(doc.root)) :
       \E map_order \in Orders(DOMAIN BuildSymbolTable(doc).symbols) :
          LET r == AnalyzeDocument(config, doc, set_order, map_order) IN
          /\ diagnostics' = r.diagnostics
          /\ symbol_table' = r.symbol_table
    /\ previous' = [ran |-> runs > 0, diagnostics |-> diagnostics]
    /\ op' = "analyze"
    /\ runs' = runs + 1
    /\ UNCHANGED <<doc, config>>
    /\ UNCHANGED format_vars
    /\ UNCHANGED <<command_vars, object_vars, position_vars, call_vars>>

Next == Lint \/ Analyze

Spec == Init /\ [][Next]_vars

SpecAnchors == InitAnchors /\ [][Next]_vars

\* the MON text of a value tree, written on one line
RECURSIVE SourceOfValue(_), SourceOfMember(_)
SourceOfValue(value) ==
    CASE value.kind = "Null" -> <<"null">>
      [] value.kind = "Number" -> <<ToString(value.n)>>
      [] value.kind = "Alias" -> <<"*" \o value.name>>
      [] value.kind = "ArraySpread" -> <<"...*" \o value.name>>
      [] value.kind = "Array" ->
            <<"[">>
            \o JoinComma([i \in DOMAIN value.items |-> SourceOfValue(value.items[i])])
            \o <<"]">>
      [] value.kind = "Object" ->
            IF value.members = <<>> THEN <<"{", "}">>
            ELSE <<"{", " ">>
                 \o JoinComma([i \in DOMAIN value.members |->
                                   SourceOfMember(value.members[i])])
                 \o <<" ", "}">>

SourceOfMember(member) ==
    CASE member.mk = "Pair" ->
            <<KeyPart(member), ":", " ">> \o SourceOfValue(member.value)
      [] member.mk = "Spread" -> <<"...*" \o member.name>>
      [] member.mk = "TypeDefinition" ->
            <<member.name, ":", " ", "#enum", " ", "{", " ">>
            \o JoinComma([i \in DOMAIN member.variants |-> <<member.variants[i]>>])
            \o <<" ", "}">>

\* what a source file may start with: nothing, or a comment line
SourcePrefixes == {<<>>, <<"// c", "\n">>}

\* FormatConfig values: the styles of objects and arrays, a narrow and the
\* default line width, two trailing-comma settings, both settings of
\* single_line_empty_objects and of final_newline
FormatConfigs ==
    [indent_style : {"Spaces"}, indent_size : {4}, max_line_width : {5, 80},
     object_style : {"Expanded", "Compact", "Auto"}, object_expand_threshold : {2},
     space_before_colon : {FALSE}, space_after_colon : {TRUE},
     array_style : {"Compact", "Auto"}, array_expand_threshold : {5},
     space_in_brackets : {FALSE}, trailing_commas : {"Never", "Multiline"},
     single_line_empty_objects : BOOLEAN, single_line_empty_arrays : {TRUE},
     final_newline : BOOLEAN]

InitFormat ==
    /\ doc \in Documents("format", MaxFormatNodes)
    /\ config = DefaultLintConfig
    /\ InitCommon
    /\ \E prefix \in SourcePrefixes : input = prefix \o SourceOfValue(doc.root)
    /\ fconfig \in FormatConfigs
    /\ output = NotFormatted
    /\ reformatted = NotFormatted
    /\ NoCommand

\* Formatter::new(fconfig).format(input)
Format ==
    /\ ~output.ran
    /\ output' = FormatterFormat(fconfig, input)
    /\ UNCHANGED <<doc, config, input, fconfig, reformatted>>
    /\ UNCHANGED lint_vars
    /\ UNCHANGED <<command_vars, object_vars, position_vars, call_vars>>

\* the same formatter on its own output: format(format(source))
Reformat ==
    /\ output.ran
    /\ output.ok
    /\ ~reformatted.ran
    /\ reformatted' = FormatterFormat(fconfig, output.text)
    /\ UNCHANGED <<doc, config, input, fconfig, output>>
    /\ UNCHANGED lint_vars
    /\ UNCHANGED <<command_vars, object_vars, position_vars, call_vars>>

NextFormat == Format \/ Reformat

SpecFormat == InitFormat /\ [][NextFormat]_vars

\* ------------------------------------------------------------------------
\* Properties
\* ------------------------------------------------------------------------
\* every value of the tree with its path: the value itself, the values of
\* its Pair members and its array items, at every level
RECURSIVE SubValues(_, _)
SubValues(value, path) ==
    {<<path, value>>} \cup
    CASE value.kind = "Object" ->
            UNION {IF value.members[i].mk = "Pair"
                   THEN SubValues(value.members[i].value, Append(path, i)) ELSE {} :
                      i \in DOMAIN value.members}
      [] value.kind = "Array" ->
            UNION {SubValues(value.items[i], Append(path, i)) : i \in DOMAIN value.items}
      [] OTHER -> {}

NodesOfKind(kind) == {n \in SubValues(doc.root, <<>>) : n[2].kind = kind}

\* sum of the values of a function with a finite domain
RECURSIVE SumFn(_)
SumFn(f) ==
    IF DOMAIN f = {} THEN 0
    ELSE LET x == CHOOSE x \in DOMAIN f : TRUE
         IN  f[x] + SumFn([y \in DOMAIN f \ {x} |-> f[y]])

CountCode(code) == Count(diagnostics, LAMBDA d : d.code = code)

\* number of Pair members of an object with the given key
Occurrences(object, key) == Count(object.members, LAMBDA m : m.mk = "Pair" /\ m.key = key)

\* C1: after Linter.lint, for every key, the LINT2002 diagnostics naming it
\* number k-1 for each object (at any level, inside arrays too) in which the
\* key occurs k >= 1 times, summed over the objects of the tree.
C1_DuplicateKeyCount ==
    op = "lint" =>
        \A key \in Keys :
            Count(diagnostics, LAMBDA d : d.code = "LINT2002" /\ d.message[2] = key)
            = SumFn([n \in NodesOfKind("Object") |->
                        IF Occurrences(n[2], key) >= 1
                        THEN Occurrences(n[2], key) - 1 ELSE 0])

\* C1 witness: linted, an object that is an array item repeats a key
C1_Witness ==
    /\ op = "lint"
    /\ \E n \in NodesOfKind("Object"), a \in NodesOfKind("Array") :
          /\ Len(n[1]) = Len(a[1]) + 1
          /\ SubSeq(n[1], 1, Len(a[1])) = a[1]
          /\ \E key \in Keys : Occurrences(n[2], key) >= 2
    /\ CountCode("LINT2002") >= 1

\* the nesting depth of the document: the greatest number of Pair-value /
\* array-item steps from the root to any value
NestingDepth == MaxOf({Len(n[1]) : n \in SubValues(doc.root, <<>>)})

\* number of values at the greatest depth
DeepestBranches ==
    Cardinality({n \in SubValues(doc.root, <<>>) : Len(n[1]) = NestingDepth})

DefinedAnchors == {n[2].anchor : n \in SubValues(doc.root, <<>>)} \ {NoAnchor}

\* an Alias value, ArraySpread value or Spread member naming the anchor exists
Referenced(anchor) ==
    \E n \in SubValues(doc.root, <<>>) :
        \/ n[2].kind \in {"Alias", "ArraySpread"} /\ n[2].name = anchor
        \/ /\ n[2].kind = "Object"
           /\ \E i \in DOMAIN n[2].members :
                 n[2].members[i].mk = "Spread" /\ n[2].members[i].name = anchor

UnusedAnchorNames(table) ==
    {sym.name : sym \in UNION {Range(FindUnusedSymbols(table, "Anchor", order)) :
                                  order \in Orders(DOMAIN table.symbols)}}

\* C3: after analyze_document, a defined anchor is among
\* find_unused_symbols(Anchor) exactly when nothing in the tree refers to it.
C3_UnusedIffUnreferenced ==
    op = "analyze" =>
        \A anchor \in DefinedAnchors :
            anchor \in UnusedAnchorNames(symbol_table) <=> ~Referenced(anchor)

\* C3 witness: analysed, one anchor is referenced by spreads only (no alias)
\* and is not reported, another is unreferenced and reported
C3_Witness ==
    /\ op = "analyze"
    /\ \E used \in DefinedAnchors, unused \in DefinedAnchors :
          /\ Referenced(used) /\ ~Referenced(unused)
          /\ \A n \in NodesOfKind("Alias") : n[2].name # used
          /\ unused \in UnusedAnchorNames(symbol_table)
          /\ used \notin UnusedAnchorNames(symbol_table)

CountUnusedAnchor(anchor) ==
    Count(diagnostics, LAMBDA d : d.code = "LINT2001" /\ d.message[2] = anchor)

\* C4: Linter.lint with warn_unused_anchors emits one LINT2001 per distinct
\* defined and unreferenced anchor name, none for a referenced one, and no
\* LINT2001 at all with warn_unused_anchors off.
C4_UnusedAnchorDiagnostics ==
    op = "lint" =>
        /\ \A anchor \in DefinedAnchors :
              CountUnusedAnchor(anchor) =
                  IF config.warn_unused_anchors /\ ~Referenced(anchor) THEN 1 ELSE 0
        /\ CountCode("LINT2001") =
              IF config.warn_unused_anchors
              THEN Cardinality({a \in DefinedAnchors : ~Referenced(a)}) ELSE 0

\* C4 witness: linted with the warning on, one anchor used and one unused
C4_Witness ==
    /\ op = "lint"
    /\ config.warn_unused_anchors
    /\ \E used \in DefinedAnchors, unused \in DefinedAnchors :
          Referenced(used) /\ ~Referenced(unused)
    /\ CountCode("LINT2001") = 1

\* C5: analyze_document with warn_unused_anchors returns exactly one LINT2001
\* for each anchor that is defined and never referenced.
C5_OneReportPerUnusedAnchor ==
    (op = "analyze" /\ config.warn_unused_anchors) =>
        \A anchor \in DefinedAnchors :
            ~Referenced(anchor) => CountUnusedAnchor(anchor) = 1

\* own size of a node: non-TypeDefinition members, or items
OwnSize(value) ==
    IF value.kind = "Object"
    THEN Count(value.members, LAMBDA m : m.mk # "TypeDefinition")
    ELSE Len(value.items)

\* C6: after Linter.lint the LINT1002 diagnostics are one per object whose own
\* non-TypeDefinition member count exceeds max_object_members, the LINT1003
\* diagnostics one per array whose own item count exceeds max_array_items,
\* each carrying the count of its node.
C6_OneSizeDiagnosticPerNode ==
    op = "lint" =>
        /\ CountCode("LINT1002") =
              Cardinality({n \in NodesOfKind("Object") :
                              OwnSize(n[2]) > config.max_object_members})
        /\ CountCode("LINT1003") =
              Cardinality({n \in NodesOfKind("Array") :
                              OwnSize(n[2]) > config.max_array_items})
        /\ \A size \in 0..(MaxNodes + 1) :
              /\ Count(diagnostics, LAMBDA d : d.code = "LINT1002" /\ d.message[3] = size)
                 = Cardinality({n \in NodesOfKind("Object") :
                                   OwnSize(n[2]) = size /\ size > config.max_object_members})
              /\ Count(diagnostics, LAMBDA d : d.code = "LINT1003" /\ d.message[3] = size)
                 = Cardinality({n \in NodesOfKind("Array") :
                                   OwnSize(n[2]) = size /\ size > config.max_array_items})

\* C6 witness: linted, a nested object over the limit is reported once while
\* the root, which has more members than the limit only when its
\* TypeDefinition is counted, is not
C6_Witness ==
    /\ op = "lint"
    /\ Len(doc.root.members) > config.max_object_members
    /\ OwnSize(doc.root) <= config.max_object_members
    /\ \E n \in NodesOfKind("Object") :
          n[1] # <<>> /\ OwnSize(n[2]) > config.max_object_members
    /\ CountCode("LINT1002") = 1

\* C8: two runs of the same operation on the same document and config return
\* the same diagnostics in the same order.
C8_Deterministic == runs >= 2 => diagnostics = previous.diagnostics

\* ------------------------------------------------------------------------
\* Formatter properties
\* ------------------------------------------------------------------------
\* C7: formatting is idempotent: formatting the output of format under the
\* same FormatConfig succeeds and returns exactly that output
C7_FormatIdempotent ==
    reformatted.ran =>
        /\ reformatted.ok
        /\ Text(reformatted.text) = Text(output.text)

\* a container is rendered expanded when a newline follows its bracket
IsExpandedText(text) == Len(text) >= 2 /\ text[2] = "\n"

\* the containers of a value with the depth format_value renders each at:
\* the children of an expanded container are one level deeper
RECURSIVE RenderedContainers(_, _)
RenderedContainers(value, depth) ==
    IF ~IsContainer(value) THEN {}
    ELSE LET inner == IF IsExpandedText(FormatValueKind(fconfig, value, depth))
                      THEN depth + 1 ELSE depth
             children == IF value.kind = "Array" THEN Range(value.items)
                         ELSE {value.members[i].value :
                                 i \in {j \in DOMAIN value.members :
                                           IsPair(value.members[j])}}
         IN  {<<value, depth>>}
             \cup UNION {RenderedContainers(c, inner) : c \in children}

\* the formatter would render the container on a single line
RendersSingleLine(value) ==
    IF value.kind = "Array"
    THEN value.items # <<>> /\ ~ShouldExpandArray(fconfig, value.items)
    ELSE value.members # <<>> /\ ~ShouldExpandObject(fconfig, value.members)

SingleLineText(value, depth) ==
    IF value.kind = "Array" THEN FormatArraySingleLine(fconfig, value.items, depth)
    ELSE FormatObjectSingleLine(fconfig, value.members, depth)

ExpandedText(value, depth) ==
    IF value.kind = "Array" THEN FormatArrayExpanded(fconfig, value.items, depth)
    ELSE FormatObjectExpanded(fconfig, value.members, depth)

\* the single-line rendering of the container is longer than max_line_width
TooWide(value, depth) ==
    RendersSingleLine(value)
    /\ Width(SingleLineText(value, depth)) > fconfig.max_line_width

\* C9: width fallback: every Array and every Object the formatter would
\* render on a single line, whose single-line rendering is longer than
\* max_line_width, is rendered in its expanded form instead
C9_WidthFallback ==
    (output.ran /\ output.ok) =>
        \A node \in RenderedContainers(doc.root, 0) :
            TooWide(node[1], node[2]) =>
                FormatValueKind(fconfig, node[1], node[2])
                    = ExpandedText(node[1], node[2])

\* C10 as stated: format on the source {} outputs {} when
\* single_line_empty_objects is true and {\n} when it is false
C10_EmptyObjectText ==
    (output.ran /\ Text(input) = "{}") =>
        /\ output.ok
        /\ Text(output.text)
              = (IF fconfig.single_line_empty_objects THEN "{}" ELSE "{\n}")

\* C10, amended: format on the source {} outputs {} when
\* single_line_empty_objects is true and {\n} when it is false, followed by
\* one newline when final_newline is true and by nothing when it is false
C10_EmptyObjectTextAndNewline ==
    (output.ran /\ Text(input) = "{}") =>
        /\ output.ok
        /\ Text(output.text)
              = (IF fconfig.single_line_empty_objects THEN "{}" ELSE "{\n}")
                \o (IF fconfig.final_newline THEN "\n" ELSE "")

\* the source {} formatted with single_line_empty_objects false and
\* final_newline true
C10_Witness ==
    /\ output.ran
    /\ output.ok
    /\ Text(input) = "{}"
    /\ ~fconfig.single_line_empty_objects
    /\ fconfig.final_newline
    /\ Text(output.text) = "{\n}\n"

\* ------------------------------------------------------------------------
\* Source files with comments, malformed source files, and the fmt command
\* (commands/fmt.rs)
\* ------------------------------------------------------------------------
\* how the text of a document is laid out: on one line; after a comment
\* line; with a comment after the root value; with a comment line inside the
\* root value; without its last closing brace
SourceLayouts == {"plain", "leading", "trailing", "inside", "truncated"}

WriteSource(layout, root) ==
    CASE layout = "plain" -> SourceOfValue(root)
      [] layout = "leading" -> <<"// c", "\n">> \o SourceOfValue(root)
      [] layout = "trailing" -> SourceOfValue(root) \o <<" ", "// c">>
      [] layout = "inside" ->
            <<"{", "\n", "    ", "// c", "\n">>
            \o JoinComma([i \in DOMAIN root.members |-> SourceOfMember(root.members[i])])
            \o <<"\n", "}">>
      [] layout = "truncated" ->
            SubSeq(SourceOfValue(root), 1, Len(SourceOfValue(root)) - 1)

\* the modes of the fmt command: --check, --write, neither
FmtModes == {"check", "write", "print"}

\* the FormatConfig values of these runs: the default line width and
\* trailing-comma setting
SourceFormatConfigs ==
    {c \in FormatConfigs : c.max_line_width = 80 /\ c.trailing_commas = "Multiline"}

InitSources ==
    /\ doc \in Documents("format", MaxSourceNodes)
    /\ config = DefaultLintConfig
    /\ InitCommon
    /\ \E layout \in SourceLayouts : input = WriteSource(layout, doc.root)
    /\ fconfig \in SourceFormatConfigs
    /\ output = NotFormatted
    /\ reformatted = NotFormatted
    /\ file = input
    /\ fmt_result = NoFmtResult
    /\ files = <<>>
    /\ out_format = "text"
    /\ batch = NoBatch
    /\ calls = <<>>
    /\ content = <<>>
    /\ start_offset = 0
    /\ end_offset = 0
    /\ span = NoSpan
    /\ arguments = NoArguments
    /\ returned = NotReturned

\* commands::fmt::run on the file, with the configuration already loaded:
\* read, format (an Err returns at once), then check, write or print
FmtRun ==
    /\ fmt_result.status = "none"
    /\ \E mode \in FmtModes :
          LET source == file
              formatted == FormatterFormat(fconfig, source)
          IN  IF ~formatted.ok
              THEN /\ fmt_result' = [status |-> "err", stdout |-> <<>>]
                   /\ file' = file
              ELSE CASE mode = "check" ->
                          /\ fmt_result' =
                                [status |-> IF Text(source) = Text(formatted.text)
                                            THEN "ok" ELSE "exit1",
                                 stdout |-> <<>>]
                          /\ file' = file
                     [] mode = "write" ->
                          /\ fmt_result' = [status |-> "ok", stdout |-> <<>>]
                          /\ file' = formatted.text
                     [] mode = "print" ->
                          /\ fmt_result' = [status |-> "ok", stdout |-> formatted.text]
                          /\ file' = file
    /\ UNCHANGED <<doc, config, files, out_format, batch>>
    /\ UNCHANGED <<lint_vars, format_vars, object_vars, position_vars, call_vars>>

NextSources == Format \/ FmtRun

SpecSources == InitSources /\ [][NextSources]_vars

\* C11: every comment of the source (standalone or trailing, on any line,
\* also inside the root value) appears in the text format returns
C11_CommentsPreserved ==
    (output.ran /\ output.ok) =>
        \A i \in DOMAIN input :
            input[i] \in CommentTokens =>
                \E j \in DOMAIN output.text : output.text[j] = input[i]

\* C12: when the parser rejects the source, format returns an error and no
\* text, and the fmt command, also with --write, leaves the file as it was
C12_ParseFailureNoText ==
    ~ParseDocument(input).ok =>
        /\ output.ran => (~output.ok /\ output.text = <<>>)
        /\ fmt_result.status # "none" =>
              (fmt_result.status = "err" /\ fmt_result.stdout = <<>> /\ file = input)

\* a source without its closing brace, given to format and to the fmt command
C12_Witness ==
    /\ ~ParseDocument(input).ok
    /\ input # <<>>
    /\ output.ran
    /\ fmt_result.status = "err"

\* ------------------------------------------------------------------------
\* The lint command (commands/lint.rs)
\* ------------------------------------------------------------------------
\* the files of a batch: without diagnostics; with a Warning (unused anchor);
\* with an Error (duplicate key); with an Info (empty object); with an Error
\* and a Warning; one the parser rejects
BatchSources ==
    {WriteSource("plain", ObjectV(NoAnchor, ms)) :
        ms \in {<<Pair("a", NullV(NoAnchor))>>,
                <<Pair("a", NullV("a"))>>,
                <<Pair("a", NullV(NoAnchor)), Pair("a", NullV(NoAnchor))>>,
                <<Pair("a", ObjectV(NoAnchor, <<>>))>>,
                <<Pair("a", NullV("a")), Pair("a", NullV(NoAnchor))>>}}
    \cup {WriteSource("truncated", ObjectV(NoAnchor, <<Pair("a", NullV(NoAnchor))>>))}

\* --format
OutputFormats == {"text", "json", "sarif"}

\* LintResult::errors, warnings, infos
WithSeverity(ds, severity) == SelectSeq(ds, LAMBDA d : d.severity = severity)

\* linter.lint(&doc, &content) on a parsed file; a file of a batch defines
\* at most one anchor, so its HashSet of anchors has one iteration order
LintOfFile(cfg, document) ==
    LinterLint(cfg, document,
               CHOOSE order \in Orders(CollectAnchors(document.root)) : TRUE)

\* the for loop of run from file i on: a file the parser rejects returns the
\* error at once; otherwise the counters grow and the result is pushed
RECURSIVE LintFiles(_, _, _, _)
LintFiles(cfg, fs, i, acc) ==
    IF i > Len(fs) THEN acc
    ELSE LET parsed == ParseDocument(fs[i]) IN
         IF ~parsed.ok THEN [acc EXCEPT !.failed = TRUE]
         ELSE LET lint_result == LintOfFile(cfg, parsed.doc) IN
              LintFiles(cfg, fs, i + 1,
                  [failed |-> FALSE,
                   total_errors |-> acc.total_errors
                                      + Len(WithSeverity(lint_result, "Error")),
                   total_warnings |-> acc.total_warnings
                                      + Len(WithSeverity(lint_result, "Warning")),
                   all_results |-> Append(acc.all_results,
                                          [file |-> i, diagnostics |-> lint_result])])

\* commands::lint::run with the configuration already loaded
LintCommand(cfg, fs, format) ==
    LET loop == LintFiles(cfg, fs, 1,
                    [failed |-> FALSE, total_errors |-> 0, total_warnings |-> 0,
                     all_results |-> <<>>])
    IN  IF loop.failed
        THEN [status |-> "err", all_results |-> loop.all_results, reported |-> <<>>]
        ELSE IF format = "sarif"
        THEN [status |-> "err", all_results |-> loop.all_results, reported |-> <<>>]
        ELSE [status |-> IF loop.total_errors > 0 THEN "exit4" ELSE "ok",
              all_results |-> loop.all_results,
              reported |-> [k \in DOMAIN loop.all_results |-> loop.all_results[k].file]]

FileLists == UNION {[1..n -> BatchSources] : n \in 1..MaxFiles}

InitBatch ==
    /\ doc = [imports |-> <<>>, root |-> ObjectV(NoAnchor, <<>>)]
    /\ config = DefaultLintConfig
    /\ InitCommon
    /\ input = <<>>
    /\ fconfig = DefaultFormatConfig
    /\ output = NotFormatted
    /\ reformatted = NotFormatted
    /\ file = <<>>
    /\ fmt_result = NoFmtResult
    /\ files \in FileLists
    /\ out_format \in OutputFormats
    /\ batch = NoBatch
    /\ calls = <<>>
    /\ content = <<>>
    /\ start_offset = 0
    /\ end_offset = 0
    /\ span = NoSpan
    /\ arguments = NoArguments
    /\ returned = NotReturned

LintRun ==
    /\ batch.status = "none"
    /\ batch' = LintCommand(config, files, out_format)
    /\ UNCHANGED <<doc, config, file, fmt_result, files, out_format>>
    /\ UNCHANGED <<lint_vars, format_vars, object_vars, position_vars, call_vars>>

NextBatch == LintRun

SpecBatch == InitBatch /\ [][NextBatch]_vars

\* a file of the batch the parser rejects
FailsToParse(i) == ~ParseDocument(files[i]).ok

\* a file of the batch whose lint result has an Error-severity diagnostic
YieldsError(i) ==
    /\ ParseDocument(files[i]).ok
    /\ WithSeverity(LintOfFile(config, ParseDocument(files[i]).doc), "Error") # <<>>

\* C13: a batch lint ends in failure if and only if a file yields an
\* Error-severity diagnostic or fails to parse, and when every file parses,
\* every file is linted and reported, whatever Error diagnostics there are
C13_BatchFailure ==
    batch.status # "none" =>
        /\ (batch.status # "ok") <=>
              (\E i \in DOMAIN files : FailsToParse(i) \/ YieldsError(i))
        /\ (\A i \in DOMAIN files : ~FailsToParse(i)) =>
              /\ Len(batch.all_results) = Len(files)
              /\ batch.reported = [i \in DOMAIN files |-> i]

\* ------------------------------------------------------------------------
\* LintResult: the add operations (linter/mod.rs)
\* ------------------------------------------------------------------------
\* DiagnosticCode
DiagnosticCodes ==
    {"LINT1001", "LINT1002", "LINT1003", "LINT2001", "LINT2002", "LINT2003",
     "LINT2004", "LINT3001", "LINT3002", "LINT3003", "LINT4001", "LINT4002",
     "LINT4003"}

\* messages given to the legacy add operations, and message.contains(word)
LegacyMessages == {"nesting and members", "members and items", "items",
                   "Duplicate nesting", "other"}

Contains(message, word) ==
    CASE word = "nesting" -> message \in {"nesting and members", "Duplicate nesting"}
      [] word = "members" -> message \in {"nesting and members", "members and items"}
      [] word = "items" -> message \in {"members and items", "items"}
      [] word = "Duplicate" -> message = "Duplicate nesting"

\* LintResult::add_warning: the code is inferred from the message
AddWarning(message) ==
    AddDiagnostic(IF Contains(message, "nesting") THEN "LINT1001"
                  ELSE IF Contains(message, "members") THEN "LINT1002"
                  ELSE IF Contains(message, "items") THEN "LINT1003"
                  ELSE "LINT2001",
                  <<message>>)

\* LintResult::add_error
AddError(message) ==
    AddDiagnostic(IF Contains(message, "Duplicate") THEN "LINT2002" ELSE "LINT4002",
                  <<message>>)

\* LintResult::add_info
AddInfo(message) == AddDiagnostic("LINT2004", <<message>>)

\* LintResult::new(), nothing else at work
InitLintResult ==
    /\ doc = [imports |-> <<>>, root |-> ObjectV(NoAnchor, <<>>)]
    /\ config = DefaultLintConfig
    /\ InitCommon
    /\ NoFormatter

\* one add call on the LintResult: the Diagnostic is pushed
Push(name, diagnostic) ==
    /\ op \in {"none", "add"}
    /\ Len(diagnostics) < MaxDiagnostics
    /\ diagnostics' = Append(diagnostics, diagnostic)
    /\ calls' = Append(calls, name)
    /\ op' = "add"
    /\ UNCHANGED <<doc, config, runs, previous, symbol_table>>
    /\ UNCHANGED <<format_vars, command_vars, position_vars, call_vars>>

AddDiagnosticCall ==
    \E code \in DiagnosticCodes : Push("add_diagnostic", AddDiagnostic(code, <<"m">>))

AddDiagnosticWithRangeCall ==
    \E code \in DiagnosticCodes : \E tags \in {{}, {"Unnecessary"}} :
        Push("add_diagnostic_with_range",
             AddDiagnosticWithRange(code, <<"m">>, SpanOf(<<>>), tags))

AddWarningCall == \E message \in LegacyMessages : Push("add_warning", AddWarning(message))

AddErrorCall == \E message \in LegacyMessages : Push("add_error", AddError(message))

AddInfoCall == \E message \in LegacyMessages : Push("add_info", AddInfo(message))

NextLintResult ==
    \/ AddDiagnosticCall
    \/ AddDiagnosticWithRangeCall
    \/ AddWarningCall
    \/ AddErrorCall
    \/ AddInfoCall

SpecLintResult == InitLintResult /\ [][NextLintResult]_vars

\* the default severity of each code, as the table of codes gives it
DefaultSeverity(code) ==
    IF code \in {"LINT2002", "LINT4002"} THEN "Error"
    ELSE IF code \in {"LINT1001", "LINT1002", "LINT1003", "LINT2001", "LINT2003",
                      "LINT4001", "LINT4003"} THEN "Warning"
    ELSE IF code \in {"LINT2004", "LINT3001", "LINT3002", "LINT3003"} THEN "Info"
    ELSE "unknown"

\* C14: after any sequence of add operations, the severity of every stored
\* diagnostic is the default severity of its code
C14_SeverityOfCode ==
    \A i \in DOMAIN diagnostics :
        diagnostics[i].severity = DefaultSeverity(diagnostics[i].code)

\* an Error stored by the legacy add_error after an Info stored by add_info
C14_Witness ==
    /\ calls = <<"add_info", "add_error">>
    /\ diagnostics[1].severity = "Info"
    /\ diagnostics[2].code = "LINT2002"
    /\ diagnostics[2].severity = "Error"

\* ------------------------------------------------------------------------
\* SymbolTable: calls in any order (linter/symbol_table.rs)
\* ------------------------------------------------------------------------
SymbolNames == {"a", "b"}
SymbolKinds == {"Anchor", "Type"}

\* Symbol values: two definitions of a key differ in their detail
Symbols ==
    [name : SymbolNames, kind : SymbolKinds, range : {SpanOf(<<>>)},
     detail : {"d1", "d2"}]

\* SymbolReference values
SymbolReferences ==
    [symbol_name : SymbolNames, symbol_kind : SymbolKinds, range : {SpanOf(<<>>)},
     reference_kind : {"Alias", "Spread"}]

NoArgument == <<>>

\* SymbolTable::new(), nothing else at work
InitSymbolTable ==
    /\ doc = [imports |-> <<>>, root |-> ObjectV(NoAnchor, <<>>)]
    /\ config = DefaultLintConfig
    /\ InitCommon
    /\ NoFormatter

\* one call on the table
TableCall(name, argument, table) ==
    /\ op \in {"none", "table"}
    /\ Len(calls) < MaxCalls
    /\ symbol_table' = table
    /\ calls' = Append(calls, [name |-> name, argument |-> argument])
    /\ op' = "table"
    /\ UNCHANGED <<doc, config, runs, diagnostics, previous>>
    /\ UNCHANGED <<format_vars, command_vars, position_vars, call_vars>>

AddSymbolCall ==
    \E symbol \in Symbols :
        TableCall("add_symbol", symbol, AddSymbol(symbol_table, symbol))

AddReferenceCall ==
    \E reference \in SymbolReferences :
        TableCall("add_reference", reference, AddReference(symbol_table, reference))

ClearCall == TableCall("clear", NoArgument, Clear(symbol_table))

NextSymbolTable == AddSymbolCall \/ AddReferenceCall \/ ClearCall

SpecSymbolTable == InitSymbolTable /\ [][NextSymbolTable]_vars

\* the calls since the table was created or last cleared
LiveCalls ==
    LET clears == {i \in DOMAIN calls : calls[i].name = "clear"} IN
    IF clears = {} THEN calls
    ELSE SubSeq(calls, MaxOf(clears) + 1, Len(calls))

\* the positions in LiveCalls of the add_symbol calls with key (name, kind)
DefinitionsOf(name, kind) ==
    {i \in DOMAIN LiveCalls :
        /\ LiveCalls[i].name = "add_symbol"
        /\ LiveCalls[i].argument.name = name
        /\ LiveCalls[i].argument.kind = kind}

\* the arguments of the add_reference calls with key (name, kind), in call
\* order
ReferencesTo(name, kind) ==
    LET added == SelectSeq(LiveCalls, LAMBDA c :
                    c.name = "add_reference"
                    /\ c.argument.symbol_name = name
                    /\ c.argument.symbol_kind = kind)
    IN  [i \in DOMAIN added |-> added[i].argument]

SymbolKeys == SymbolNames \X SymbolKinds

\* C15: find_symbol(name, kind) is the Symbol most recently added under the
\* key (None if none was), never one of another kind, and symbol_count() is
\* the number of distinct keys added since creation or the last clear()
C15_LastDefinitionWins ==
    /\ \A key \in SymbolKeys :
          LET found == FindSymbol(symbol_table, key[1], key[2])
              added == DefinitionsOf(key[1], key[2])
          IN  IF added = {} THEN ~found.some
              ELSE /\ found.some
                   /\ found.symbol = LiveCalls[MaxOf(added)].argument
                   /\ found.symbol.kind = key[2]
    /\ SymbolCount(symbol_table)
          = Cardinality({key \in SymbolKeys : DefinitionsOf(key[1], key[2]) # {}})

\* a key defined twice with different details, and defined under another
\* kind as well
C15_Witness ==
    /\ Len(calls) = 3
    /\ \A i \in DOMAIN calls : calls[i].name = "add_symbol"
    /\ calls[1].argument = [name |-> "a", kind |-> "Anchor",
                            range |-> SpanOf(<<>>), detail |-> "d1"]
    /\ calls[2].argument.kind = "Type"
    /\ calls[2].argument.name = "a"
    /\ calls[3].argument = [name |-> "a", kind |-> "Anchor",
                            range |-> SpanOf(<<>>), detail |-> "d2"]
    /\ FindSymbol(symbol_table, "a", "Anchor").symbol.detail = "d2"
    /\ SymbolCount(symbol_table) = 2

\* C16: is_unused(name, kind) holds exactly when a Symbol is defined under
\* the key and no reference was added under it, in whatever order the calls
\* came; find_unused_symbols(kind) returns exactly those symbols, each once
C16_UnusedIffDefinedUnreferenced ==
    /\ \A key \in SymbolKeys :
          IsUnused(symbol_table, key[1], key[2])
            <=> (DefinitionsOf(key[1], key[2]) # {}
                 /\ ReferencesTo(key[1], key[2]) = <<>>)
    /\ \A kind \in SymbolKinds : \A order \in Orders(DOMAIN symbol_table.symbols) :
          LET unused == FindUnusedSymbols(symbol_table, kind, order)
              expected == {LiveCalls[MaxOf(DefinitionsOf(name, kind))].argument :
                             name \in {n \in SymbolNames :
                                         /\ DefinitionsOf(n, kind) # {}
                                         /\ ReferencesTo(n, kind) = <<>>}}
          IN  /\ Range(unused) = expected
              /\ Len(unused) = Cardinality(expected)

\* a referenced before it is defined, b defined and never referenced
C16_Witness ==
    /\ Len(calls) = 3
    /\ calls[1].name = "add_reference"
    /\ calls[1].argument.symbol_name = "a"
    /\ calls[1].argument.symbol_kind = "Anchor"
    /\ calls[2].name = "add_symbol"
    /\ calls[2].argument.name = "a"
    /\ calls[2].argument.kind = "Anchor"
    /\ calls[3].name = "add_symbol"
    /\ calls[3].argument.name = "b"
    /\ calls[3].argument.kind = "Anchor"
    /\ ~IsUnused(symbol_table, "a", "Anchor")
    /\ IsUnused(symbol_table, "b", "Anchor")

\* C17: find_references(name, kind) is the list of the references added
\* under the key, in the order of the calls; reference_count() is the number
\* of add_reference calls since creation or the last clear(); add_symbol
\* leaves every reference list as it was
C17_ReferencesInCallOrder ==
    /\ \A key \in SymbolKeys :
          FindReferences(symbol_table, key[1], key[2]) = ReferencesTo(key[1], key[2])
    /\ ReferenceCount(symbol_table)
          = Cardinality({i \in DOMAIN LiveCalls : LiveCalls[i].name = "add_reference"})

\* an Alias reference, then a Spread reference to the same key, then its
\* definition
C17_Witness ==
    /\ Len(calls) = 3
    /\ calls[1].name = "add_reference"
    /\ calls[2].name = "add_reference"
    /\ calls[3].name = "add_symbol"
    /\ calls[3].argument.name = "a"
    /\ calls[3].argument.kind = "Anchor"
    /\ LET refs == FindReferences(symbol_table, "a", "Anchor") IN
       /\ Len(refs) = 2
       /\ refs[1].reference_kind = "Alias"
       /\ refs[2].reference_kind = "Spread"

\* ------------------------------------------------------------------------
\* Position and Range (linter/position.rs)
\* ------------------------------------------------------------------------
\* the characters of a text: an ASCII letter, a newline, a two-byte character
\* of the basic multilingual plane, a four-byte character outside it
Chars == {"a", "\n", "e-acute", "emoji"}

\* char::len_utf8
Utf8Len(ch) ==
    CASE ch = "e-acute" -> 2
      [] ch = "emoji" -> 4
      [] OTHER -> 1

\* one code unit for every character
Utf16LenOne(ch) == 1

\* char::len_utf16
Utf16Len(ch) == IF ch = "emoji" THEN 2 ELSE 1

\* the loop body with the line counter left alone
NextPositionSameLine(position, ch) ==
    IF ch = "\n" THEN [line |-> position.line, character |-> 0]
    ELSE [line |-> position.line, character |-> position.character + Utf16Len(ch)]

\* the loop body of from_byte_offset after the break test
NextPosition(position, ch) ==
    IF ch = "\n" THEN [line |-> position.line + 1, character |-> 0]
    ELSE [line |-> position.line, character |-> position.character + Utf16Len(ch)]

\* the loop of from_byte_offset from character i, which starts at byte idx
RECURSIVE ScanChars(_, _, _, _, _)
ScanChars(source, i, idx, byte_offset, position) ==
    IF i > Len(source) \/ idx >= byte_offset THEN position
    ELSE ScanChars(source, i + 1, idx + Utf8Len(source[i]), byte_offset,
                   NextPosition(position, source[i]))

\* Position::from_byte_offset
FromByteOffset(source, byte_offset) ==
    ScanChars(source, 1, 0, byte_offset, [line |-> 0, character |-> 0])

\* Range::from_byte_offsets
FromByteOffsets(source, start, end) ==
    [start |-> FromByteOffset(source, start), end |-> FromByteOffset(source, end)]

\* str::len: the length in bytes
ByteLen(source) == SumAll([i \in DOMAIN source |-> Utf8Len(source[i])])

Texts == UNION {[1..n -> Chars] : n \in 0..MaxChars}

\* a text and two byte offsets start <= end, up to one byte beyond the text
InitPosition ==
    /\ doc = [imports |-> <<>>, root |-> ObjectV(NoAnchor, <<>>)]
    /\ config = DefaultLintConfig
    /\ InitCommon
    /\ input = <<>>
    /\ fconfig = DefaultFormatConfig
    /\ output = NotFormatted
    /\ reformatted = NotFormatted
    /\ file = <<>>
    /\ fmt_result = NoFmtResult
    /\ files = <<>>
    /\ out_format = "text"
    /\ batch = NoBatch
    /\ calls = <<>>
    /\ content \in Texts
    /\ end_offset \in 0..(ByteLen(content) + 1)
    /\ start_offset \in 0..end_offset
    /\ span = NoSpan
    /\ arguments = NoArguments
    /\ returned = NotReturned

\* Range::from_byte_offsets(content, start_offset, end_offset)
RangeFromByteOffsets ==
    /\ span = NoSpan
    /\ span' = <<FromByteOffsets(content, start_offset, end_offset)>>
    /\ UNCHANGED <<doc, config, content, start_offset, end_offset>>
    /\ UNCHANGED <<lint_vars, format_vars, command_vars, object_vars, call_vars>>

NextPositions == RangeFromByteOffsets

SpecPosition == InitPosition /\ [][NextPositions]_vars

\* the byte at which character i of the text starts
CharStart(i) == SumAll([k \in 1..(i - 1) |-> Utf8Len(content[k])])

\* the characters that start before a byte offset
StartBefore(offset) == {i \in DOMAIN content : CharStart(i) < offset}

\* the position the rule gives: newlines before the offset, and the UTF-16
\* code units (2 outside the basic multilingual plane, else 1) of the
\* characters after the last of them and before the offset
ExpectedPosition(offset) ==
    LET before == StartBefore(offset)
        newlines == {i \in before : content[i] = "\n"}
        last_newline == IF newlines = {} THEN 0 ELSE MaxOf(newlines)
        column == {i \in before : i > last_newline}
        ordered == CHOOSE order \in Orders(column) : TRUE
    IN  [line |-> Cardinality(newlines),
         character |-> SumAll([k \in DOMAIN ordered |->
                                  IF content[ordered[k]] = "emoji" THEN 2 ELSE 1])]

PositionLeq(p, q) == p.line < q.line \/ (p.line = q.line /\ p.character <= q.character)

OrderConfigs ==
    [max_nesting_depth : {0, 4}, max_object_members : {1, 20}, max_array_items : {1},
     max_import_chain_depth : {0, 2}, warn_unused_anchors : BOOLEAN,
     warn_magic_numbers : {FALSE}]

InitOrder ==
    /\ doc \in Documents("order", MaxOrderNodes)
    /\ config \in OrderConfigs
    /\ InitCommon
    /\ NoFormatter

SpecOrder == InitOrder /\ [][Next]_vars

\* the place of a diagnostic in the order the rule gives: Complexity,
\* Smell, Import, then the unused-anchor diagnostics of the symbol table
CategoryRank(diagnostic) ==
    CASE "Unnecessary" \in diagnostic.tags -> 4
      [] diagnostic.code \in {"LINT1001", "LINT1002", "LINT1003"} -> 1
      [] diagnostic.code \in {"LINT2001", "LINT2002", "LINT2003", "LINT2004",
                              "LINT3002", "LINT3003"} -> 2
      [] diagnostic.code = "LINT4001" -> 3
      [] OTHER -> 0

\* C20: in the diagnostics Linter.lint and analyze_document return, every
\* Complexity diagnostic comes before every Smell diagnostic, every Smell
\* diagnostic before every Import diagnostic, and the unused-anchor
\* diagnostics derived from the symbol table after all of them
C20_DiagnosticsByCategory ==
    op \in {"lint", "analyze"} =>
        /\ \A i \in DOMAIN diagnostics : CategoryRank(diagnostics[i]) \in 1..4
        /\ \A i, j \in DOMAIN diagnostics :
              i < j => CategoryRank(diagnostics[i]) <= CategoryRank(diagnostics[j])
        /\ op = "lint" => \A i \in DOMAIN diagnostics : CategoryRank(diagnostics[i]) # 4

\* one analysis that returns diagnostics of all four groups
C20_Witness ==
    /\ op = "analyze"
    /\ \A r \in 1..4 : \E i \in DOMAIN diagnostics : CategoryRank(diagnostics[i]) = r

\* ------------------------------------------------------------------------
\* Nesting depth and naming (linter/complexity.rs, linter/smells.rs)
\* ------------------------------------------------------------------------
\* the greatest depth of an Object or Array node: the root at 0, one more for
\* each Pair value or Array item on the way down; scalar leaves add no level
ContainerDepth ==
    MaxOf({Len(n[1]) : n \in NodesOfKind("Object") \cup NodesOfKind("Array")})

\* C21: LINT1001 is emitted if and only if the greatest depth of an Object or
\* Array node of the tree (root 0, each nested Pair value or Array item adds
\* 1, scalar leaves add no level) exceeds max_nesting_depth
C21_DepthOfContainers ==
    op = "lint" => (CountCode("LINT1001") >= 1 <=> ContainerDepth > config.max_nesting_depth)

InitNaming ==
    /\ doc \in Documents("naming", MaxNamingNodes)
    /\ config \in {DefaultLintConfig}
    /\ InitCommon
    /\ NoFormatter

SpecNaming == InitNaming /\ [][Next]_vars

\* the direct Pair keys of an object that contain an underscore
SnakeCount(object) == Count(object.members, LAMBDA m : IsPair(m) /\ m.key \in {"a_b", "A_b"})

\* the direct Pair keys of an object that contain an uppercase letter
CamelCount(object) == Count(object.members, LAMBDA m : IsPair(m) /\ m.key \in {"aB", "A_b"})

\* C22: for each Object, with snake count = its direct Pair keys containing
\* an underscore and camel count = its direct Pair keys containing an
\* uppercase letter (a key with both counts in both), exactly one LINT3002
\* carrying both counts is emitted if and only if both counts are non-zero
C22_MixedNamingPerObject ==
    op = "lint" =>
        \A snake, camel \in 0..MaxNamingNodes :
            Count(diagnostics, LAMBDA d : d.code = "LINT3002" /\ d.message[2] = snake
                                          /\ d.message[3] = camel)
            = Cardinality({n \in NodesOfKind("Object") :
                              /\ SnakeCount(n[2]) = snake /\ CamelCount(n[2]) = camel
                              /\ snake > 0 /\ camel > 0})

\* ------------------------------------------------------------------------
\* Trailing commas (formatter/format.rs)
\* ------------------------------------------------------------------------
\* FormatConfig values: every trailing-comma policy under every object and
\* array style, with a narrow and the default line width
CommaConfigs ==
    [indent_style : {"Spaces"}, indent_size : {4}, max_line_width : {5, 80},
     object_style : {"Expanded", "Compact", "Auto"}, object_expand_threshold : {3},
     space_before_colon : {FALSE}, space_after_colon : {TRUE},
     array_style : {"Expanded", "Compact", "Auto"}, array_expand_threshold : {5},
     space_in_brackets : {FALSE}, trailing_commas : {"Always", "Never", "Multiline"},
     single_line_empty_objects : {TRUE}, single_line_empty_arrays : {TRUE},
     final_newline : {TRUE}]

InitCommas ==
    /\ doc \in Documents("format", MaxCommaNodes)
    /\ config = DefaultLintConfig
    /\ InitCommon
    /\ input = SourceOfValue(doc.root)
    /\ fconfig \in CommaConfigs
    /\ output = NotFormatted
    /\ reformatted = NotFormatted
    /\ NoCommand

NextCommas == Format \/ Reformat

SpecCommas == InitCommas /\ [][NextCommas]_vars

\* the container has at least one element
NonEmpty(value) ==
    IF value.kind = "Array" THEN value.items # <<>> ELSE value.members # <<>>

\* the last lexeme before the closing bracket that is not whitespace
LastBeforeClose(text) ==
    LET body == SelectSeq(SubSeq(text, 1, Len(text) - 1),
                          LAMBDA t : t \notin WhitespaceTokens)
    IN  body[Len(body)]

\* C23: after the last element of a non-empty Array or Object a comma is
\* emitted under Always whether the container is rendered single-line or
\* expanded, never under Never, and under Multiline if and only if the
\* container is rendered expanded
C23_TrailingCommaPolicy ==
    (output.ran /\ output.ok) =>
        \A node \in RenderedContainers(doc.root, 0) :
            NonEmpty(node[1]) =>
                LET text == FormatValueKind(fconfig, node[1], node[2]) IN
                (LastBeforeClose(text) = ",")
                <=> \/ fconfig.trailing_commas = "Always"
                    \/ fconfig.trailing_commas = "Multiline" /\ IsExpandedText(text)

\* ------------------------------------------------------------------------
\* sort_members (formatter/advanced.rs)
\* ------------------------------------------------------------------------
\* KeySortStyle
KeySortStyles == {"None", "Alpha", "Length"}

\* the keys of the members handed to sort_members, in the order of
\* String::cmp (bytewise)
SortKeys == <<"B", "a", "ab", "b">>

\* a Member::Import
ImportMember == [mk |-> "Import"]

\* get_member_key
GetMemberKey(member) ==
    CASE member.mk = "Pair" -> member.key
      [] member.mk = "TypeDefinition" -> member.name
      [] member.mk = "Spread" -> member.name
      [] member.mk = "Import" -> ""

\* what the comparator of a style compares: the key under String::cmp, or
\* its length
KeyRank(style, key) ==
    IF style = "Alpha" THEN CHOOSE i \in DOMAIN SortKeys : SortKeys[i] = key
    ELSE Len(key)

\* an insertion that puts the member before the members it compares equal to
InsertByKeyBefore(sorted, member, style) ==
    LET rank == KeyRank(style, GetMemberKey(member))
        before == SelectSeq(sorted, LAMBDA m : KeyRank(style, GetMemberKey(m)) < rank)
        after == SelectSeq(sorted, LAMBDA m : KeyRank(style, GetMemberKey(m)) >= rank)
    IN  before \o <<member>> \o after

\* the place slice::sort_by, a stable sort, gives a member among the members
\* that precede it in the input: after every member that compares less or
\* equal
InsertByKey(sorted, member, style) ==
    LET rank == KeyRank(style, GetMemberKey(member))
        before == SelectSeq(sorted, LAMBDA m : KeyRank(style, GetMemberKey(m)) <= rank)
        after == SelectSeq(sorted, LAMBDA m : KeyRank(style, GetMemberKey(m)) > rank)
    IN  before \o <<member>> \o after

\* slice::sort_by with the comparator of the style
RECURSIVE SortByKey(_, _)
SortByKey(group, style) ==
    IF group = <<>> THEN <<>>
    ELSE InsertByKey(SortByKey(SubSeq(group, 1, Len(group) - 1), style),
                     group[Len(group)], style)

\* the test that puts a Pair into the anchored group
IsAnchoredPair(member) ==
    member.mk = "Pair" /\ member.value.anchor # NoAnchor
    /\ member.value.anchor = member.key

\* sort_members
SortMembers(member_list, style) ==
    IF style = "None" THEN member_list
    ELSE LET type_defs == SelectSeq(member_list, LAMBDA m : m.mk = "TypeDefinition")
             anchored == SelectSeq(member_list, IsAnchoredPair)
             regular == SelectSeq(member_list,
                                  LAMBDA m : m.mk = "Pair" /\ ~IsAnchoredPair(m))
             other == SelectSeq(member_list,
                                LAMBDA m : m.mk \notin {"TypeDefinition", "Pair"})
         IN  type_defs \o SortByKey(anchored, style) \o SortByKey(regular, style) \o other

\* the members a list is drawn from: pairs with and without the anchor of
\* their key, type definitions, spreads, an import
SortableMembers ==
    UNION {{Pair(SortKeys[i], NullV(NoAnchor)), Pair(SortKeys[i], NumberV(NoAnchor, 1)),
            Pair(SortKeys[i], NullV(SortKeys[i]))} : i \in DOMAIN SortKeys}
    \cup {TypeDefinition("T"), TypeDefinition("U"), Spread("a"), Spread("b"), ImportMember}

\* sort_members is about to be called on a member list with a style
InitSort ==
    /\ doc = [imports |-> <<>>, root |-> ObjectV(NoAnchor, <<>>)]
    /\ config = DefaultLintConfig
    /\ InitCommon
    /\ input = <<>>
    /\ fconfig = DefaultFormatConfig
    /\ output = NotFormatted
    /\ reformatted = NotFormatted
    /\ file = <<>>
    /\ fmt_result = NoFmtResult
    /\ files = <<>>
    /\ out_format = "text"
    /\ batch = NoBatch
    /\ calls = <<>>
    /\ content = <<>>
    /\ start_offset = 0
    /\ end_offset = 0
    /\ span = NoSpan
    /\ \E n \in 0..MaxMembers : \E member_list \in [1..n -> SortableMembers] :
       \E style \in KeySortStyles :
          arguments = [members |-> member_list, style |-> style]
    /\ returned = NotReturned

\* sort_members(arguments.members, arguments.style)
SortMembersCall ==
    /\ returned = NotReturned
    /\ returned' = <<SortMembers(arguments.members, arguments.style)>>
    /\ UNCHANGED <<doc, config, arguments>>
    /\ UNCHANGED <<lint_vars, format_vars, command_vars, object_vars, position_vars>>

NextSort == SortMembersCall

SpecSort == InitSort /\ [][NextSort]_vars

\* the group of a member in the layout: TypeDefinition members, pairs whose
\* anchor equals the key, other pairs, all other members
LayoutGroup(member) ==
    CASE member.mk = "TypeDefinition" -> 1
      [] member.mk = "Pair" /\ member.value.anchor = member.key -> 2
      [] member.mk = "Pair" -> 3
      [] OTHER -> 4

\* the place of a member within its group: its key under the ordering of the
\* style for pairs, nothing for the other groups
OrderInGroup(style, member) ==
    IF member.mk # "Pair" THEN 0
    ELSE IF style = "Alpha" THEN CHOOSE i \in DOMAIN SortKeys : SortKeys[i] = member.key
    ELSE Len(member.key)

\* the members of a list with a given group and place, in list order
Slice(member_list, style, group, place) ==
    SelectSeq(member_list,
              LAMBDA m : LayoutGroup(m) = group /\ OrderInGroup(style, m) = place)

\* C25: sort_members returns a permutation of its input laid out as
\* TypeDefinition members, pairs whose anchor equals the key, other pairs,
\* other members; keys non-decreasing within each pair group under the
\* ordering of the style, ties in input order; TypeDefinition and other
\* members in input order; style None returns the input; sorting twice
\* gives what sorting once gives
C25_SortMembersLayout ==
    returned # NotReturned =>
        LET given == arguments.members
            style == arguments.style
            result == returned[1]
        IN  /\ style = "None" => result = given
            /\ style # "None" =>
                  /\ Len(result) = Len(given)
                  /\ \A i, j \in DOMAIN result :
                        i < j =>
                            \/ LayoutGroup(result[i]) < LayoutGroup(result[j])
                            \/ /\ LayoutGroup(result[i]) = LayoutGroup(result[j])
                               /\ OrderInGroup(style, result[i])
                                    <= OrderInGroup(style, result[j])
                  /\ \A group \in 1..4 : \A place \in 0..Len(SortKeys) :
                        Slice(result, style, group, place)
                            = Slice(given, style, group, place)
            /\ SortMembers(result, style) = result

\* a list sorted by length in which two keys of one length keep their input
\* order while a shorter key and a type definition move in front of others
C25_Witness ==
    /\ returned # NotReturned
    /\ arguments.style = "Length"
    /\ arguments.members = <<Pair("ab", NullV(NoAnchor)), Pair("b", NullV(NoAnchor)),
                             Pair("B", NullV(NoAnchor))>>
    /\ returned[1] = <<Pair("b", NullV(NoAnchor)), Pair("B", NullV(NoAnchor)),
                       Pair("ab", NullV(NoAnchor))>>

\* ------------------------------------------------------------------------
\* FormatConfig.sort_keys (formatter/config.rs, formatter/format.rs)
\* ------------------------------------------------------------------------
\* FormatConfig values with the sort_keys field: the default configuration
\* under every object style and every KeySortStyle
SortKeysConfigs ==
    {[DefaultFormatConfig EXCEPT !.object_style = object_style]
        @@ [sort_keys |-> style] :
        object_style \in {"Expanded", "Compact", "Auto"}, style \in KeySortStyles}

InitSortKeys ==
    /\ doc \in Documents("structure", MaxSortedNodes)
    /\ config = DefaultLintConfig
    /\ InitCommon
    /\ input = SourceOfValue(doc.root)
    /\ fconfig \in SortKeysConfigs
    /\ output = NotFormatted
    /\ reformatted = NotFormatted
    /\ NoCommand

SpecSortKeys == InitSortKeys /\ [][NextFormat]_vars

\* the tree with the members of every object in the order sort_members
\* gives them
RECURSIVE SortedTree(_, _)
SortedTree(value, style) ==
    CASE value.kind = "Object" ->
            LET sorted == SortMembers(value.members, style) IN
            ObjectV(value.anchor,
                    [i \in DOMAIN sorted |->
                        IF IsPair(sorted[i])
                        THEN Pair(sorted[i].key, SortedTree(sorted[i].value, style))
                        ELSE sorted[i]])
      [] value.kind = "Array" ->
            ArrayV(value.anchor,
                   [i \in DOMAIN value.items |-> SortedTree(value.items[i], style)])
      [] OTHER -> value

\* C24: with sort_keys Alpha or Length, Formatter.format emits the members of
\* each object as TypeDefinition members, then pairs whose anchor equals the
\* key, then other pairs, then other members, each pair group sorted by key;
\* with sort_keys None it keeps the source order
C24_SortedOutput ==
    (output.ran /\ output.ok) =>
        Text(output.text)
            = Text(EnsureFinalNewline(fconfig,
                      FormatValue(fconfig, SortedTree(doc.root, fconfig.sort_keys), 0)))

\* ------------------------------------------------------------------------
\* Comment alignment (formatter/advanced.rs)
\* ------------------------------------------------------------------------
\* Option<String>::None of a line's trailing comment
NoTrailingComment == "None"

\* the longest content, whether or not it has a comment
MaxContentLenOfAll(lines) ==
    MaxOf({0} \cup {Len(lines[i][1]) : i \in DOMAIN lines})

\* the loop of calculate_comment_alignment: the longest content that has a
\* comment
MaxContentLenOf(lines) ==
    MaxOf({0} \cup {Len(lines[i][1]) :
                      i \in {j \in DOMAIN lines : lines[j][2] # NoTrailingComment}})

\* calculate_comment_alignment
CalculateCommentAlignment(lines) ==
    LET max_content_len == MaxContentLenOf(lines)
        aligned == ((max_content_len + 3) \div 4) * 4 + 4
    IN  IF aligned < 80 THEN aligned ELSE 80

\* a panic: the call does not return a value
Panic == [ok |-> FALSE, text |-> ""]

\* align_comment_at: `padding - 2` underflows usize when the content ends one
\* column before the alignment column; a debug build panics on the
\* subtraction, a release build on the length of the repeated string
AlignCommentAt(content_text, comment, column) ==
    LET content_len == Len(content_text) IN
    IF content_len >= column
    THEN [ok |-> TRUE, text |-> content_text \o "  " \o comment]
    ELSE LET padding == column - content_len IN
         IF padding - 2 < 0 THEN Panic
         ELSE [ok |-> TRUE,
               text |-> content_text \o "  " \o Repeat(" ", padding - 2) \o comment]

\* content lengths around the multiples of 4 and around the cap
LineLengths == {0, 1, 3, 4, 5, 75, 76, 77, 80, 81}

\* (content, optional trailing comment) pairs
CommentedLines ==
    {<<Repeat("x", n), comment>> : n \in LineLengths,
                                    comment \in {NoTrailingComment, "// c"}}

\* one of the two functions is about to be called
InitAlign ==
    /\ doc = [imports |-> <<>>, root |-> ObjectV(NoAnchor, <<>>)]
    /\ config = DefaultLintConfig
    /\ InitCommon
    /\ input = <<>>
    /\ fconfig = DefaultFormatConfig
    /\ output = NotFormatted
    /\ reformatted = NotFormatted
    /\ file = <<>>
    /\ fmt_result = NoFmtResult
    /\ files = <<>>
    /\ out_format = "text"
    /\ batch = NoBatch
    /\ calls = <<>>
    /\ content = <<>>
    /\ start_offset = 0
    /\ end_offset = 0
    /\ span = NoSpan
    /\ \/ \E n \in 0..MaxLines : \E lines \in [1..n -> CommentedLines] :
             arguments = [function |-> "calculate_comment_alignment", lines |-> lines]
       \/ \E n \in 0..MaxContentLen : \E column \in 0..MaxColumn :
             arguments = [function |-> "align_comment_at", content |-> Repeat("x", n),
                          comment |-> "// c", column |-> column]
    /\ returned = NotReturned

\* calculate_comment_alignment(arguments.lines)
CalculateCommentAlignmentCall ==
    /\ returned = NotReturned
    /\ arguments.function = "calculate_comment_alignment"
    /\ returned' = <<CalculateCommentAlignment(arguments.lines)>>
    /\ UNCHANGED <<doc, config, arguments>>
    /\ UNCHANGED <<lint_vars, format_vars, command_vars, object_vars, position_vars>>

\* align_comment_at(arguments.content, arguments.comment, arguments.column)
AlignCommentAtCall ==
    /\ returned = NotReturned
    /\ arguments.function = "align_comment_at"
    /\ returned' = <<AlignCommentAt(arguments.content, arguments.comment,
                                    arguments.column)>>
    /\ UNCHANGED <<doc, config, arguments>>
    /\ UNCHANGED <<lint_vars, format_vars, command_vars, object_vars, position_vars>>

NextAlign == CalculateCommentAlignmentCall \/ AlignCommentAtCall

SpecAlign == InitAlign /\ [][NextAlign]_vars

\* calculate_comment_alignment has returned
AlignmentReturned ==
    returned # NotReturned /\ arguments.function = "calculate_comment_alignment"

\* the length of the longest content that has a trailing comment
LongestCommented ==
    MaxOf({0} \cup {Len(arguments.lines[i][1]) :
                      i \in {j \in DOMAIN arguments.lines : arguments.lines[j][2] = "// c"}})

\* the lines that have a trailing comment
CommentedOnly == SelectSeq(arguments.lines, LAMBDA l : l[2] = "// c")

\* C26 as stated: for every input list the column returned is at least the
\* length of the longest content that has a trailing comment
C26_ColumnCoversLongest == AlignmentReturned => returned[1] >= LongestCommented

\* C26, amended: the column is at least the length of the longest content
\* that has a trailing comment when that length is at most 80, and is 80 when
\* it is longer; contents without a comment do not influence the column
C26_ColumnCoversLongestUpToCap ==
    AlignmentReturned =>
        /\ LongestCommented <= 80 => returned[1] >= LongestCommented
        /\ LongestCommented > 80 => returned[1] = 80
        /\ returned[1] = CalculateCommentAlignment(CommentedOnly)

\* a short commented content beside a longer content without a comment: the
\* column stays below the longer one
C26_Witness ==
    /\ AlignmentReturned
    /\ \E i, j \in DOMAIN arguments.lines :
          /\ arguments.lines[i] = <<"xxxxx", "// c">>
          /\ arguments.lines[j] = <<Repeat("x", 77), NoTrailingComment>>
    /\ returned[1] = 12

\* C27: align_comment_at never fails; with len(content) < column it returns
\* content, column - len(content) spaces and the comment; with
\* len(content) >= column it returns content, two spaces and the comment
C27_AlignCommentAt ==
    (returned # NotReturned /\ arguments.function = "align_comment_at") =>
        /\ returned[1].ok
        /\ returned[1].text
             = arguments.content
               \o (IF Len(arguments.content) < arguments.column
                   THEN Repeat(" ", arguments.column - Len(arguments.content))
                   ELSE "  ")
               \o arguments.comment

\* ------------------------------------------------------------------------
\* Comment extraction on the characters of a line (formatter/format.rs)
\* ------------------------------------------------------------------------
\* the characters of a line: a letter, a slash, a double quote, a backslash
\* and a two-byte letter
LineChars == {"x", "/", "\"", "\\", "e-acute"}

\* the character indexes (from 1) at which a // starts
SlashSlashAt(line) ==
    {p \in 1..(Len(line) - 1) : line[p] = "/" /\ line[p + 1] = "/"}

\* the loop of is_inside_string from character i (counted from 0)
RECURSIVE IsInsideStringFrom(_, _, _, _, _)
IsInsideStringFrom(line, pos, i, in_string, escape_next) ==
    IF i >= Len(line) \/ i >= pos THEN in_string
    ELSE IF escape_next THEN IsInsideStringFrom(line, pos, i + 1, in_string, FALSE)
    ELSE IF line[i + 1] = "\\" THEN IsInsideStringFrom(line, pos, i + 1, in_string, TRUE)
    ELSE IF line[i + 1] = "\"" THEN IsInsideStringFrom(line, pos, i + 1, ~in_string, FALSE)
    ELSE IsInsideStringFrom(line, pos, i + 1, in_string, FALSE)

\* is_inside_string(line, pos): pos is compared with character indexes
IsInsideString(line, pos) == IsInsideStringFrom(line, pos, 0, FALSE, FALSE)

\* the body of the loop of extract_comments on one line: line.find("//")
\* gives the byte offset of the first //, and the comment is recorded when
\* is_inside_string says that offset is outside a string
ExtractComment(line) ==
    IF SlashSlashAt(line) = {} THEN NoComment
    ELSE LET first == CHOOSE p \in SlashSlashAt(line) : \A q \in SlashSlashAt(line) : p <= q
             comment_start == SumAll([k \in 1..(first - 1) |-> Utf8Len(line[k])])
         IN  IF ~IsInsideString(line, comment_start)
             THEN [found |-> TRUE, column |-> comment_start,
                   text |-> SubSeq(line, first, Len(line))]
             ELSE NoComment

\* extract_comments is about to run on a one-line source
InitExtract ==
    /\ doc = [imports |-> <<>>, root |-> ObjectV(NoAnchor, <<>>)]
    /\ config = DefaultLintConfig
    /\ InitCommon
    /\ input = <<>>
    /\ fconfig = DefaultFormatConfig
    /\ output = NotFormatted
    /\ reformatted = NotFormatted
    /\ file = <<>>
    /\ fmt_result = NoFmtResult
    /\ files = <<>>
    /\ out_format = "text"
    /\ batch = NoBatch
    /\ calls = <<>>
    /\ content = <<>>
    /\ start_offset = 0
    /\ end_offset = 0
    /\ span = NoSpan
    /\ \E n \in 0..MaxLineChars : \E line \in [1..n -> LineChars] :
          arguments = [function |-> "extract_comments", line |-> line]
    /\ returned = NotReturned

\* extract_comments on the line
ExtractCommentsCall ==
    /\ returned = NotReturned
    /\ arguments.function = "extract_comments"
    /\ returned' = <<ExtractComment(arguments.line)>>
    /\ UNCHANGED <<doc, config, arguments>>
    /\ UNCHANGED <<lint_vars, format_vars, command_vars, object_vars, position_vars>>

NextExtract == ExtractCommentsCall

SpecExtract == InitExtract /\ [][NextExtract]_vars

\* character p of the line (counted from 1) lies inside a double-quoted
\* string: the string state, toggled on every quote that no backslash
\* escapes, is on after the characters before p
RECURSIVE InString(_, _, _, _)
InString(line, p, i, state) ==
    IF i >= p THEN state
    ELSE IF line[i] = "\\" THEN (IF i + 1 >= p THEN state ELSE InString(line, p, i + 2, state))
    ELSE IF line[i] = "\"" THEN InString(line, p, i + 1, ~state)
    ELSE InString(line, p, i + 1, state)

\* the // of the line that are not inside a string
CommentStarts(line) == {p \in SlashSlashAt(line) : ~InString(line, p, 1, FALSE)}

\* the first of them
FirstCommentStart(line) ==
    CHOOSE p \in CommentStarts(line) : \A q \in CommentStarts(line) : p <= q

\* C28: the first // of a line that is not inside a double-quoted string
\* starts a comment that runs to the end of the line, also when an earlier //
\* lies inside a string; a line with no // outside a string yields no comment
C28_FirstCommentOutsideString ==
    (returned # NotReturned /\ arguments.function = "extract_comments") =>
        LET line == arguments.line IN
        IF CommentStarts(line) = {}
        THEN ~returned[1].found
        ELSE /\ returned[1].found
             /\ returned[1].text = SubSeq(line, FirstCommentStart(line), Len(line))

\* ------------------------------------------------------------------------
\* Members kept by the formatter (formatter/format.rs)
\* ------------------------------------------------------------------------
\* the lexeme a member's rendering starts with: the key part of a Pair, the
\* spread of a Spread, the name of a TypeDefinition
LeadLexeme(member) ==
    CASE member.mk = "Pair" -> KeyPart(member)
      [] member.mk = "Spread" -> "...*" \o member.name
      [] member.mk = "TypeDefinition" -> member.name

\* C29: every Pair, Spread and TypeDefinition member of every Object is
\* present in the rendering of that object, under every object_style,
\* whether the object is rendered single-line or expanded
C29_NoMemberDropped ==
    (output.ran /\ output.ok) =>
        \A node \in RenderedContainers(doc.root, 0) :
            node[1].kind = "Object" =>
                LET text == FormatValueKind(fconfig, node[1], node[2]) IN
                \A i \in DOMAIN node[1].members :
                    Count(text, LAMBDA t : t = LeadLexeme(node[1].members[i]))
                    >= Count(node[1].members,
                             LAMBDA m : LeadLexeme(m) = LeadLexeme(node[1].members[i]))

\* ------------------------------------------------------------------------
\* The import check of the bundle command (commands/bundle.rs)
\* ------------------------------------------------------------------------
\* the paths of the model: the entry file and two files it may import
EntryFile == "entry.mon"
Paths == {EntryFile, "a.mon", "b.mon"}

\* the while loop of build_simple_import_graph: every file taken from the
\* stack gets the import paths of the entry document, the only document the
\* function is given
RECURSIVE BuildGraphLoop(_, _, _, _, _)
BuildGraphLoop(stack, visited, graph, imports, on_disk) ==
    IF stack = <<>> THEN graph
    ELSE LET current == stack[Len(stack)]
             rest == SubSeq(stack, 1, Len(stack) - 1)
         IN  IF current \in visited
             THEN BuildGraphLoop(rest, visited, graph, imports, on_disk)
             ELSE BuildGraphLoop(
                     rest \o SelectSeq(imports,
                                       LAMBDA i : i \in on_disk
                                                  /\ i \notin visited \cup {current}),
                     visited \cup {current},
                     (current :> imports) @@ graph,
                     imports, on_disk)

\* build_simple_import_graph(doc, entry)
BuildSimpleImportGraph(entry_imports, on_disk) ==
    BuildGraphLoop(<<EntryFile>>, {}, <<>>, entry_imports, on_disk)

NoCycle == <<>>

\* dfs_cycle, and its loop over the neighbors from index i: the cycle found
\* (or none) with the visited set and the recursion stack left behind
RECURSIVE DfsCycle(_, _, _, _), DfsNeighbors(_, _, _, _, _)
DfsCycle(node, graph, visited, rec_stack) ==
    IF node \in DOMAIN graph
    THEN DfsNeighbors(node, graph, 1, visited \cup {node}, Append(rec_stack, node))
    ELSE [cycle |-> NoCycle, visited |-> visited \cup {node}, rec_stack |-> rec_stack]

DfsNeighbors(node, graph, i, visited, rec_stack) ==
    IF i > Len(graph[node])
    THEN [cycle |-> NoCycle, visited |-> visited,
          rec_stack |-> SubSeq(rec_stack, 1, Len(rec_stack) - 1)]
    ELSE LET neighbor == graph[node][i] IN
         IF neighbor \notin visited
         THEN LET below == DfsCycle(neighbor, graph, visited, rec_stack) IN
              IF below.cycle # NoCycle THEN below
              ELSE DfsNeighbors(node, graph, i + 1, below.visited, below.rec_stack)
         ELSE IF neighbor \in Range(rec_stack)
         THEN LET cycle_start == CHOOSE k \in DOMAIN rec_stack : rec_stack[k] = neighbor
              IN  [cycle |-> SubSeq(rec_stack, cycle_start, Len(rec_stack)),
                   visited |-> visited, rec_stack |-> rec_stack]
         ELSE DfsNeighbors(node, graph, i + 1, visited, rec_stack)

\* detect_cycle: the loop over graph.keys() in the order the HashMap gives
RECURSIVE DetectCycleFrom(_, _, _, _)
DetectCycleFrom(graph, keys, i, visited) ==
    IF i > Len(keys) THEN NoCycle
    ELSE IF keys[i] \in visited THEN DetectCycleFrom(graph, keys, i + 1, visited)
    ELSE LET found == DfsCycle(keys[i], graph, visited, <<>>) IN
         IF found.cycle # NoCycle THEN found.cycle
         ELSE DetectCycleFrom(graph, keys, i + 1, found.visited)

DetectCycle(graph, keys) == DetectCycleFrom(graph, keys, 1, {})

\* the import check of commands::bundle::run on an entry file that exists
\* and parses
BundleImportCheck(entry_imports, on_disk, keys) ==
    LET import_graph == BuildSimpleImportGraph(entry_imports, on_disk)
        cycle == DetectCycle(import_graph, keys)
    IN  IF cycle # NoCycle
        THEN [status |-> "Circular dependency detected", cycle |-> cycle,
              graph |-> import_graph]
        ELSE [status |-> "verified", cycle |-> NoCycle, graph |-> import_graph]

\* the import paths one file can hold
ImportLists == UNION {[1..n -> Paths] : n \in 0..MaxImports}

\* the files on disk with the import statements of each: the entry file is
\* there, any other file may be missing
InitBundle ==
    /\ doc = [imports |-> <<>>, root |-> ObjectV(NoAnchor, <<>>)]
    /\ config = DefaultLintConfig
    /\ InitCommon
    /\ input = <<>>
    /\ fconfig = DefaultFormatConfig
    /\ output = NotFormatted
    /\ reformatted = NotFormatted
    /\ file = <<>>
    /\ fmt_result = NoFmtResult
    /\ files = <<>>
    /\ out_format = "text"
    /\ batch = NoBatch
    /\ calls = <<>>
    /\ content = <<>>
    /\ start_offset = 0
    /\ end_offset = 0
    /\ span = NoSpan
    /\ \E on_disk \in {S \in SUBSET Paths : EntryFile \in S} :
       \E imports_of \in [Paths -> ImportLists] :
          /\ \A f \in Paths \ on_disk : imports_of[f] = <<>>
          /\ arguments = [function |-> "bundle", on_disk |-> on_disk,
                          imports_of |-> imports_of]
    /\ returned = NotReturned

\* commands::bundle::run up to the end of its import check
BundleRun ==
    /\ returned = NotReturned
    /\ arguments.function = "bundle"
    /\ \E keys \in Orders(DOMAIN BuildSimpleImportGraph(arguments.imports_of[EntryFile],
                                                        arguments.on_disk)) :
          returned' = <<BundleImportCheck(arguments.imports_of[EntryFile],
                                          arguments.on_disk, keys)>>
    /\ UNCHANGED <<doc, config, arguments>>
    /\ UNCHANGED <<lint_vars, format_vars, command_vars, object_vars, position_vars>>

NextBundle == BundleRun

SpecBundle == InitBundle /\ [][NextBundle]_vars

\* file g is imported by file f
Imports(f, g) == g \in Range(arguments.imports_of[f])

\* the files reached from f through at least one and at most n import
\* statements
RECURSIVE ReachedFrom(_, _)
ReachedFrom(f, n) ==
    IF n = 0 THEN {}
    ELSE LET direct == {g \in Paths : Imports(f, g)} IN
         direct \cup UNION {ReachedFrom(g, n - 1) : g \in direct}

\* the files reachable from the entry file form a directed cycle
ImportCycle ==
    \E f \in {EntryFile} \cup ReachedFrom(EntryFile, Cardinality(Paths)) :
        f \in ReachedFrom(f, Cardinality(Paths))

\* the path is a cycle of the graph: each file is followed by one of its
\* neighbors, the last by the first
IsCycleOf(path, graph) ==
    /\ path # <<>>
    /\ \A k \in DOMAIN path :
          /\ path[k] \in DOMAIN graph
          /\ (IF k < Len(path) THEN path[k + 1] ELSE path[1]) \in Range(graph[path[k]])

\* C30: the import check reports `Circular dependency detected` if and only
\* if the files reachable from the entry file through import statements form
\* a directed cycle; an entry file whose imports exist on disk and form no
\* cycle passes; detect_cycle returns a path only when its graph has a cycle
\* through that path
C30_CycleIffImportCycle ==
    (returned # NotReturned /\ arguments.function = "bundle") =>
        /\ returned[1].status = "Circular dependency detected" <=> ImportCycle
        /\ returned[1].cycle # NoCycle => IsCycleOf(returned[1].cycle, returned[1].graph)

====
